---- MODULE Spec2Model ----
(***************************************************************************)
(* Typify: the LRU cache (services/cache_service.py) and the three text    *)
(* processors (services/text_processors.py) that sit between the hotkey    *)
(* layer and the inference provider.                                       *)
(*                                                                         *)
(* Strings are sequences of one-character strings, so that strip(),        *)
(* lower(), len() and key concatenation are computed, not assumed.         *)
(* A Python dict is a sequence of entries in insertion order (the order    *)
(* sorted() sees and keeps for equal sort keys).                           *)
(***************************************************************************)
EXTENDS Integers, Sequences, FiniteSets, TLC

\* ------------------------------------------------------------------ bounds
MaxTime == 1        \* largest value time.time() returns
MaxAccess == 1      \* cap on CacheEntry.access_count
MaxCalls == 2       \* processor invocations per behaviour
MaxCacheSize == 2   \* CacheConfig.max_cache_size, scaled down from 100
CleanupBatch == 1   \* CacheConfig.cleanup_batch_size, scaled down from 20
MaxSvcOps == 2      \* direct CacheService calls per behaviour
MaxThreadOps == 3   \* LRUCache calls started by all threads together
MaxServiceCalls == 2  \* processor / CacheService calls started by all threads
MaxGetCalls == 3    \* get_cache_service() calls started by all threads
MaxInvocations == 2 \* processor invocations started by all threads
MaxTextLen == 250   \* longest text whose generation arguments are built
MaxPresses == 1     \* hotkey presses per behaviour
MaxInputLen == 11   \* longest text body whose generated text is validated
MaxOutputLen == 4   \* longest generated text body that is validated

\* Optional[T]: None is the empty sequence, a present value v is <<v>>
None == <<>>
Some(v) == <<v>>

Min(a, b) == IF a < b THEN a ELSE b
Max(a, b) == IF a > b THEN a ELSE b

\* ------------------------------------------------------------------ state
VARIABLES
    clock,      \* the last value time.time() returned
    lru,        \* a stand-alone LRUCache: [max_size, cleanup_batch_size, _cache]
    lru_op,     \* the last operation on lru and what it returned / removed
    cache_service,  \* the CacheService singleton: its three LRUCaches
    call,       \* the processor invocation that has just returned (IdleCall: none)
    result,     \* what that invocation returned
    prev,       \* the invocation before it, when the caller repeated its call
    calls,      \* processor invocations so far
    svc_op,     \* the last direct CacheService call and what it returned
    locks,      \* per cache, the thread inside "with self._lock" (NoThread: free)
    thr,        \* per thread, the call it is in and its position in it
    hits,       \* per cache and key, access_count stores since the entry was made
    _cache_service,  \* the module global of cache_service.py (None until set)
    instances,  \* CacheService objects constructed so far
    getter,     \* per thread, its position in get_cache_service()
    proc,       \* per thread, the processor invocation it is running
    request,    \* the arguments of the last generate_response call built
    hotkey      \* the last hotkey handler run and what it did to the application

lru_vars == <<lru, lru_op>>
svc_vars == <<cache_service, call, result, prev, calls>>
conc_vars == <<locks, thr, hits>>
single_vars == <<_cache_service, instances, getter>>
ext_vars == <<single_vars, proc, request, hotkey>>
vars == <<clock, lru, lru_op, cache_service, call, result, prev, calls,
          svc_op, locks, thr, hits, _cache_service, instances, getter, proc,
          request, hotkey>>

\* time.time(): the values a call may return after one that returned t.
\* Two calls may return the same value (coarse clock); time never goes back.
Times(t) == t .. Min(t + 1, MaxTime)

\* ------------------------------------------------------- CacheEntry / LRUCache
\* CacheEntry(value): created_at and last_accessed come from two separate
\* time.time() calls (default_factory), t1 then t2.
CacheEntry(key, value, t1, t2) ==
    [key |-> key, value |-> value, created_at |-> t1,
     access_count |-> 0, last_accessed |-> t2]

\* CacheEntry.access(): bump the counter, refresh last_accessed.
access(e, t) ==
    [e EXCEPT !.access_count = e.access_count + 1, !.last_accessed = t]

\* LRUCache.__init__
LRUCache(max_size, cleanup_batch_size) ==
    [max_size |-> max_size, cleanup_batch_size |-> cleanup_batch_size,
     _cache |-> <<>>]

\* position of key in the dict, 0 when absent ("key in self._cache")
IndexOf(d, key) ==
    IF \E i \in 1..Len(d) : d[i].key = key
    THEN CHOOSE i \in 1..Len(d) : d[i].key = key
    ELSE 0

KeysOf(d) == {d[i].key : i \in 1..Len(d)}

\* the subsequence of d at the indices in S, order kept
Restrict(d, S) ==
    LET F[i \in 0..Len(d)] ==
            IF i = 0 THEN <<>>
            ELSE IF i \in S THEN Append(F[i - 1], d[i]) ELSE F[i - 1]
    IN F[Len(d)]

\* mutation of SortedPos: the sort runs newest first
SortedPos_newest_first(d, i) ==
    Cardinality({j \in 1..Len(d) :
        \/ d[j].last_accessed > d[i].last_accessed
        \/ d[j].last_accessed = d[i].last_accessed /\ j < i})

\* 0-based position of d[i] in sorted(d.items(), key=last_accessed);
\* Python's sorted() is stable, so equal keys stay in dict order.
SortedPos(d, i) ==
    Cardinality({j \in 1..Len(d) :
        \/ d[j].last_accessed < d[i].last_accessed
        \/ d[j].last_accessed = d[i].last_accessed /\ j < i})

\* mutation of CleanupVictims: no early return, a map below
\* cleanup_batch_size is emptied
CleanupVictims_unguarded(c) ==
    {i \in 1..Len(c._cache) : SortedPos(c._cache, i) < c.cleanup_batch_size}

\* the dict indices _cleanup deletes: sorted_entries[:cleanup_batch_size],
\* nothing when the guard returns early
CleanupVictims(c) ==
    IF Len(c._cache) < c.cleanup_batch_size
    THEN {}
    ELSE {i \in 1..Len(c._cache) : SortedPos(c._cache, i) < c.cleanup_batch_size}

\* mutation of _cleanup: the most recently used entry is never deleted
_cleanup_spares_newest(c) ==
    [c EXCEPT !._cache =
        Restrict(c._cache,
                 ((1..Len(c._cache)) \ CleanupVictims(c))
                    \cup {i \in 1..Len(c._cache) :
                             SortedPos(c._cache, i) = Len(c._cache) - 1})]

\* LRUCache._cleanup
_cleanup(c) ==
    [c EXCEPT !._cache =
        Restrict(c._cache, (1..Len(c._cache)) \ CleanupVictims(c))]

\* mutation of get: a miss leaves an entry behind
get_inserts_on_miss(c, key, t) ==
    LET i == IndexOf(c._cache, key) IN
    IF i # 0
    THEN [self |-> [c EXCEPT !._cache[i] = access(c._cache[i], t)],
          ret |-> Some(c._cache[i].value)]
    ELSE [self |-> [c EXCEPT !._cache = Append(c._cache, CacheEntry(key, "", t, t))],
          ret |-> None]

\* LRUCache.get: [self after the call, ret]
get(c, key, t) ==
    LET i == IndexOf(c._cache, key) IN
    IF i # 0
    THEN [self |-> [c EXCEPT !._cache[i] = access(c._cache[i], t)],
          ret |-> Some(c._cache[i].value)]
    ELSE [self |-> c, ret |-> None]

\* mutation of PutAtCapacity: ">" for ">="
PutAtCapacity_strict(c) == Len(c._cache) > c.max_size

\* does put run _cleanup?  (len(self._cache) >= self.max_size)
PutAtCapacity(c) == Len(c._cache) >= c.max_size

\* mutation of put: an existing entry gets the new value and keeps its metadata
put_keeps_metadata(c, key, value, t1, t2) ==
    LET c1 == IF PutAtCapacity(c) THEN _cleanup(c) ELSE c
        i == IndexOf(c1._cache, key)
        e == CacheEntry(key, value, t1, t2)
    IN  IF i # 0
        THEN [c1 EXCEPT !._cache[i].value = value]
        ELSE [c1 EXCEPT !._cache = Append(c1._cache, e)]

\* mutation of put: an overwrite, which cannot grow the map, skips the cleanup
put_overwrite_skips_cleanup(c, key, value, t1, t2) ==
    LET c1 == IF PutAtCapacity(c) /\ IndexOf(c._cache, key) = 0
              THEN _cleanup(c) ELSE c
        i == IndexOf(c1._cache, key)
        e == CacheEntry(key, value, t1, t2)
    IN  IF i # 0
        THEN [c1 EXCEPT !._cache[i] = e]
        ELSE [c1 EXCEPT !._cache = Append(c1._cache, e)]

\* LRUCache.put: cleanup when at capacity, then self._cache[key] = CacheEntry(value)
\* (an existing key keeps its dict position, a new key goes last)
put(c, key, value, t1, t2) ==
    LET c1 == IF PutAtCapacity(c) THEN _cleanup(c) ELSE c
        i == IndexOf(c1._cache, key)
        e == CacheEntry(key, value, t1, t2)
    IN  IF i # 0
        THEN [c1 EXCEPT !._cache[i] = e]
        ELSE [c1 EXCEPT !._cache = Append(c1._cache, e)]

\* LRUCache.contains
contains(c, key) == IndexOf(c._cache, key) # 0

\* LRUCache.size
size(c) == Len(c._cache)

\* LRUCache.clear
clear(c) == [c EXCEPT !._cache = <<>>]

\* ------------------------------------------- the stand-alone LRUCache, driven
LruKeys == {"k1", "k2", "k3"}
LruValues == {"v", "w"}

\* the configurations LRUCache(max_size, cleanup_batch_size) is built with:
\* max_size below, at and above cleanup_batch_size, and the max_size 0 that
\* max_cache_size // 2 gives for max_cache_size 1
LruConfigs == {<<0, 1>>, <<0, 2>>, <<1, 1>>, <<1, 2>>, <<2, 1>>, <<2, 2>>}

\* the record of an operation: its name and arguments, what it returned, and
\* what it found (size, whether the key was there) and removed
NoOp ==
    [op |-> "init", key |-> "", value |-> "", ret |-> None, size_before |-> 0,
     present |-> FALSE, removed |-> {}]

\* keys deleted by the cleanup inside put(c, key, ...)
RemovedByPut(c) ==
    IF PutAtCapacity(c)
    THEN {c._cache[i].key : i \in CleanupVictims(c)}
    ELSE {}

LruInit ==
    /\ \E cfg \in LruConfigs : lru = LRUCache(cfg[1], cfg[2])
    /\ lru_op = NoOp

LruGet(key) ==
    \E t \in Times(clock) :
        LET r == get(lru, key, t)
            i == IndexOf(lru._cache, key)
        IN  /\ i # 0 => lru._cache[i].access_count < MaxAccess
            /\ lru' = r.self
            /\ clock' = IF i # 0 THEN t ELSE clock
            /\ lru_op' = [NoOp EXCEPT !.op = "get", !.key = key, !.ret = r.ret,
                                      !.size_before = size(lru),
                                      !.present = (i # 0)]
            /\ UNCHANGED <<svc_vars, svc_op, conc_vars, ext_vars>>

LruPut(key, value) ==
    \E t1 \in Times(clock) : \E t2 \in Times(t1) :
        /\ lru' = put(lru, key, value, t1, t2)
        /\ clock' = t2
        /\ lru_op' = [NoOp EXCEPT !.op = "put", !.key = key, !.value = value,
                                  !.size_before = size(lru),
                                  !.present = contains(lru, key),
                                  !.removed = RemovedByPut(lru)]
        /\ UNCHANGED <<svc_vars, svc_op, conc_vars, ext_vars>>

\* mutation of LruContains: contains is written with get, "self.get(key) is
\* not None", which counts as an access
LruContains_by_get(key) ==
    \E t \in Times(clock) :
        LET r == get(lru, key, t)
            i == IndexOf(lru._cache, key)
        IN  /\ i # 0 => lru._cache[i].access_count < MaxAccess
            /\ i = 0 => t = clock
            /\ lru' = r.self
            /\ clock' = t
            /\ lru_op' = [NoOp EXCEPT !.op = "contains", !.key = key,
                                      !.ret = r.ret # None,
                                      !.size_before = size(lru)]
            /\ UNCHANGED <<svc_vars, svc_op, conc_vars, ext_vars>>

LruContains(key) ==
    /\ lru_op' = [NoOp EXCEPT !.op = "contains", !.key = key,
                              !.ret = contains(lru, key),
                              !.size_before = size(lru)]
    /\ UNCHANGED <<lru, clock>>
    /\ UNCHANGED <<svc_vars, svc_op, conc_vars, ext_vars>>

LruSize ==
    /\ lru_op' = [NoOp EXCEPT !.op = "size", !.ret = size(lru),
                              !.size_before = size(lru)]
    /\ UNCHANGED <<lru, clock>>
    /\ UNCHANGED <<svc_vars, svc_op, conc_vars, ext_vars>>

LruClear ==
    /\ lru' = clear(lru)
    /\ lru_op' = [NoOp EXCEPT !.op = "clear", !.size_before = size(lru)]
    /\ UNCHANGED clock
    /\ UNCHANGED <<svc_vars, svc_op, conc_vars, ext_vars>>

LruNext ==
    \/ \E key \in LruKeys : LruGet(key)
    \/ \E key \in LruKeys, value \in LruValues : LruPut(key, value)
    \/ \E key \in LruKeys : LruContains(key)
    \/ LruSize
    \/ LruClear

\* ------------------------------------------------------------------ strings
Whitespace == {" "}

\* str.strip()
RECURSIVE lstrip(_)
lstrip(s) ==
    IF s # <<>> /\ Head(s) \in Whitespace THEN lstrip(Tail(s)) ELSE s

RECURSIVE rstrip(_)
rstrip(s) ==
    IF s # <<>> /\ s[Len(s)] \in Whitespace
    THEN rstrip(SubSeq(s, 1, Len(s) - 1))
    ELSE s

strip(s) == rstrip(lstrip(s))

\* str.lower() on the characters in use
LowerChar(ch) ==
    CASE ch = "A" -> "a"
      [] ch = "F" -> "f"
      [] OTHER -> ch

lower(s) == [i \in 1..Len(s) |-> LowerChar(s[i])]

\* s with a whitespace character on either side
Wrapped(s) == <<" ">> \o s \o <<" ">>

\* the texts a caller passes in: empty and blank ones, and bodies that differ
\* in case and length, bare and wrapped in whitespace
TextBodies == {<<>>, <<"a">>, <<"A">>, <<"a", "a">>}
Texts == TextBodies \cup {Wrapped(b) : b \in TextBodies}

\* the texts the provider generates: empty, short and longer ones, bare and
\* wrapped in whitespace
OutputBodies == {<<>>, <<"b">>, <<"b", "b">>}
Outputs == OutputBodies \cup {Wrapped(b) : b \in OutputBodies}

formal == <<"f", "o", "r", "m", "a", "l">>
Formal == <<"F", "o", "r", "m", "a", "l">>
casual == <<"c", "a", "s", "u", "a", "l">>
Tones == {formal, Formal, casual}

\* ------------------------------------------------------------- CacheService
Kinds == {"grammar", "summary", "tone"}

\* CacheService.__init__
CacheService ==
    [grammar |-> LRUCache(MaxCacheSize, CleanupBatch),
     summary |-> LRUCache(MaxCacheSize \div 2, CleanupBatch),
     tone    |-> LRUCache(MaxCacheSize \div 2, CleanupBatch)]

\* mutation of _normalize_key: one whitespace character is removed, on the left
_normalize_key_one_space(text) ==
    IF text # <<>> /\ Head(text) \in Whitespace
    THEN lower(Tail(text))
    ELSE lower(text)

\* mutation of _normalize_key: the case is kept
_normalize_key_keeps_case(text) == strip(text)

\* CacheService._normalize_key
_normalize_key(text) == lower(strip(text))

\* mutation of CacheKey: the tone is left out of the key
CacheKey_without_tone(kind, text, tone) == _normalize_key(text)

\* the key get_<op> / cache_<op> use: the normalized text, and for tone
\* f"{normalized}_{tone}"
CacheKey(kind, text, tone) ==
    IF kind = "tone"
    THEN _normalize_key(text) \o <<"_">> \o tone
    ELSE _normalize_key(text)

\* mutation of get_cached: the summaries are looked up in the grammar cache
get_cached_summary_in_grammar(svc, kind, text, tone, t) ==
    LET from == IF kind = "summary" THEN "grammar" ELSE kind
        r == get(svc[from], CacheKey(kind, text, tone), t)
    IN  [svc |-> [svc EXCEPT ![from] = r.self], ret |-> r.ret]

\* mutation of get_cached: a miss leaves the text behind under its key
get_cached_remembers_miss(svc, kind, text, tone, t) ==
    LET r == get(svc[kind], CacheKey(kind, text, tone), t)
    IN  IF r.ret = None
        THEN [svc |-> [svc EXCEPT ![kind] =
                          put(svc[kind], CacheKey(kind, text, tone), text, t, t)],
              ret |-> None]
        ELSE [svc |-> [svc EXCEPT ![kind] = r.self], ret |-> r.ret]

\* get_grammar_correction / get_summary / get_tone_change: [svc, ret]
get_cached(svc, kind, text, tone, t) ==
    LET r == get(svc[kind], CacheKey(kind, text, tone), t)
    IN  [svc |-> [svc EXCEPT ![kind] = r.self], ret |-> r.ret]

\* mutation of cache_result: nothing is stored
cache_result_not_stored(svc, kind, original_text, value, tone, t1, t2) == svc

\* mutation of cache_result: the entry is keyed by the generated text
cache_result_keyed_by_output(svc, kind, original_text, value, tone, t1, t2) ==
    [svc EXCEPT ![kind] = put(svc[kind], CacheKey(kind, value, tone), value, t1, t2)]

\* cache_grammar_correction / cache_summary / cache_tone_change
cache_result(svc, kind, original_text, value, tone, t1, t2) ==
    [svc EXCEPT ![kind] = put(svc[kind], CacheKey(kind, original_text, tone), value, t1, t2)]

\* CacheService.clear_all_caches
clear_all_caches(svc) == [k \in Kinds |-> clear(svc[k])]

\* --------------------------------------------------------- inference provider
\* What ILLMProvider.generate_response may do.  The processors see the
\* provider only through the interface, so every shape is possible:
\*   ok        {'success': True, 'response': {'choices': [{'text': text}]}}
\*   fail      {'success': False, 'error': error}   (error a string or None)
\*   fail_nokey {'success': False}                  (no 'error' key)
\*   malformed {'success': True, 'response': None}
\*   raise     raise Exception(msg)
Response(kind, text, error, msg) ==
    [kind |-> kind, text |-> text, error |-> error, msg |-> msg]

Responses ==
    {Response("ok", o, None, <<>>) : o \in Outputs}
    \cup {Response("fail", <<>>, e, <<>>) :
            e \in {Some(<<"model error">>), Some(<<>>), None}}
    \cup {Response("fail_nokey", <<>>, None, <<>>)}
    \cup {Response("malformed", <<>>, None, <<>>)}
    \cup {Response("raise", <<>>, None, m) : m \in {<<"boom">>, <<>>}}

\* --------------------------------------------------------------- processors
\* an error message is a sequence of tokens; str(e) of Exception() is empty
InvalidInputMsg == <<"Invalid input text">>

UnavailableMsg(kind) ==
    CASE kind = "grammar" -> <<"Grammar corrector not available">>
      [] kind = "summary" -> <<"Text summarizer not available">>
      [] kind = "tone"    -> <<"Tone changer not available">>

InvalidResponseMsg(kind) ==
    CASE kind = "grammar" -> <<"Invalid response from model">>
      [] kind = "summary" -> <<"Empty summary response">>
      [] kind = "tone"    -> <<"Invalid tone change response">>

\* f"Unsupported tone: {target_tone}"
UnsupportedToneMsg(target_tone) == <<"Unsupported tone: ">> \o target_tone

\* mutation of _validate_input: only the empty string is refused
_validate_input_nonempty(text) == text # <<>>

\* BaseTextProcessor._validate_input: bool(text and text.strip())
_validate_input(text) == text # <<>> /\ strip(text) # <<>>

\* mutation of is_available: the provider is not asked
is_available_always(is_loaded) == TRUE

\* BaseTextProcessor.is_available: return self.llm_provider.is_loaded()
is_available(is_loaded) == is_loaded

\* mutation of _create_error_result: the text is handed back trimmed
_create_error_result_trimmed(text, error_message) ==
    [processed_text |-> strip(text), original_text |-> text, processing_time |-> 0,
     success |-> FALSE, error_message |-> error_message, metadata |-> None]

\* mutation of _create_error_result: the failure carries a metadata map
_create_error_result_with_metadata(text, error_message) ==
    [processed_text |-> text, original_text |-> text, processing_time |-> 0,
     success |-> FALSE, error_message |-> error_message,
     metadata |-> Some([from_cache |-> FALSE])]

\* BaseTextProcessor._create_error_result
_create_error_result(text, error_message) ==
    [processed_text |-> text, original_text |-> text, processing_time |-> 0,
     success |-> FALSE, error_message |-> error_message, metadata |-> None]

\* metadata={'from_cache': ...} and, for tone, 'target_tone'
Metadata(kind, from_cache, target_tone) ==
    IF kind = "tone"
    THEN Some([from_cache |-> from_cache, target_tone |-> target_tone])
    ELSE Some([from_cache |-> from_cache])

\* the TextProcessingResult of a success
SuccessResult(kind, processed, text, processing_time, from_cache, target_tone) ==
    [processed_text |-> processed, original_text |-> text,
     processing_time |-> processing_time, success |-> TRUE,
     error_message |-> None,
     metadata |-> Metadata(kind, from_cache, target_tone)]

\* an exception that leaves the processor instead of a result
Escaped(msg) == [exception |-> msg]

\* mutation of ResponseInvalid: the length guard applies to summaries too
ResponseInvalid_all_kinds(kind, out, text) ==
    \/ out = <<>>
    \/ 10 * Len(out) < 3 * Len(text)

\* mutation of ResponseInvalid: "<=" for "<" in the length guard
ResponseInvalid_at_most(kind, out, text) ==
    \/ out = <<>>
    \/ kind # "summary" /\ 10 * Len(out) <= 3 * Len(text)

\* mutation of ResponseInvalid: the length guard is dropped
ResponseInvalid_empty_only(kind, out, text) == out = <<>>

\* the validation of the generated text: "not out" for all three,
\* "len(out) < len(text) * 0.3" for grammar and tone
ResponseInvalid(kind, out, text) ==
    \/ out = <<>>
    \/ kind # "summary" /\ 10 * Len(out) < 3 * Len(text)

\* The try body from the provider's return to the validation:
\*   [status |-> "raise", msg]   an exception was raised in the try body
\*   [status |-> "error", error] the body returned _create_error_result(text, error)
\*   [status |-> "ok", out]      out is the validated text
TryBody(kind, text, resp) ==
    CASE resp.kind = "raise" ->
            [status |-> "raise", msg |-> resp.msg, error |-> None, out |-> <<>>]
      [] resp.kind = "fail" ->
            [status |-> "error", msg |-> <<>>, error |-> resp.error, out |-> <<>>]
      [] resp.kind = "fail_nokey" ->      \* response['error'] raises KeyError
            [status |-> "raise", msg |-> <<"'error'">>, error |-> None, out |-> <<>>]
      [] resp.kind = "malformed" ->       \* response['response']['choices'] raises TypeError
            [status |-> "raise", msg |-> <<"'NoneType' object is not subscriptable">>,
             error |-> None, out |-> <<>>]
      [] resp.kind = "ok" ->
            IF ResponseInvalid(kind, strip(resp.text), text)
            THEN [status |-> "error", msg |-> <<>>,
                  error |-> Some(InvalidResponseMsg(kind)), out |-> <<>>]
            ELSE [status |-> "ok", msg |-> <<>>, error |-> None,
                  out |-> strip(resp.text)]

\* mutation of ExceptHandler: the exception is raised again
ExceptHandler_reraise(text, msg) == [exception |-> msg]

\* except Exception as e: return self._create_error_result(text, str(e))
ExceptHandler(text, msg) == _create_error_result(text, Some(msg))

\* mutation of Truthy: the cached value is never used
Truthy_never(opt) == FALSE

\* mutation of Truthy: "if cached_result is not None:"
Truthy_not_none(opt) == opt # None

\* "if cached_result:" - None and the empty string are both false
Truthy(opt) == opt # None /\ opt[1] # <<>>

\* mutations of ToneSupported: no check at all; the comparison inverted
ToneSupported_any(target_tone) == TRUE
ToneSupported_inverted(target_tone) == lower(target_tone) # formal

\* is the target tone supported?  (target_tone.lower() != 'formal' rejects)
ToneSupported(target_tone) == lower(target_tone) = formal

IdleCall ==
    [op |-> "idle", text |-> <<>>, tone |-> <<>>, is_loaded |-> FALSE,
     stored |-> None, is_loaded_calls |-> 0, cache_gets |-> 0,
     generate_calls |-> 0, response |-> None]
NoResult == [returned |-> FALSE]
NoPrev == [call |-> IdleCall, result |-> NoResult]

Returns(svc, clk, cl, res) ==
    /\ cache_service' = svc
    /\ clock' = clk
    /\ call' = cl
    /\ result' = res
    /\ calls' = calls + 1

\* fix_grammar / summarize / change_tone as one pass; kind selects the cache,
\* the messages and the validation, is_loaded is what the provider answers.
\* The call record counts the calls made to is_loaded, to the cache's get_*
\* and to generate_response.
Process(kind, text, target_tone, is_loaded) ==
    LET key == CacheKey(kind, text, target_tone)
        i == IndexOf(cache_service[kind]._cache, key)
        stored == IF i # 0 THEN Some(cache_service[kind]._cache[i].value) ELSE None
        cl0 == [op |-> kind, text |-> text, tone |-> target_tone,
                is_loaded |-> is_loaded, stored |-> stored,
                is_loaded_calls |-> 0, cache_gets |-> 0,
                generate_calls |-> 0, response |-> None]
        cla == [cl0 EXCEPT !.is_loaded_calls = 1]
        cl == [cla EXCEPT !.cache_gets = 1]
    IN
    IF ~_validate_input(text)
    THEN Returns(cache_service, clock, cl0,
                 _create_error_result(text, Some(InvalidInputMsg)))
    ELSE IF ~is_available(is_loaded)
    THEN Returns(cache_service, clock, cla,
                 _create_error_result(text, Some(UnavailableMsg(kind))))
    ELSE
      /\ i # 0 => cache_service[kind]._cache[i].access_count < MaxAccess
      /\ \E ta \in (IF i # 0 THEN Times(clock) ELSE {clock}) :
          LET g == get_cached(cache_service, kind, text, target_tone, ta) IN
          IF Truthy(g.ret)
          THEN Returns(g.svc, ta, cl,
                       SuccessResult(kind, g.ret[1], text, 0, TRUE, target_tone))
          ELSE \E t0 \in Times(ta) :         \* start_time = time.time()
            IF kind = "tone" /\ ~ToneSupported(target_tone)
            THEN Returns(g.svc, t0, cl,
                    _create_error_result(text, Some(UnsupportedToneMsg(target_tone))))
            ELSE \E resp \in Responses : \E t1 \in Times(t0) :
              LET body == TryBody(kind, text, resp)
                  cl1 == [cl EXCEPT !.generate_calls = 1, !.response = Some(resp)]
                  \* a raise in generate_response skips the second time.time()
                  tend == IF resp.kind = "raise" THEN t0 ELSE t1
              IN  CASE body.status = "raise" ->
                         /\ resp.kind = "raise" => t1 = t0
                         /\ Returns(g.svc, tend, cl1, ExceptHandler(text, body.msg))
                    [] body.status = "error" ->
                         Returns(g.svc, tend, cl1,
                                 _create_error_result(text, body.error))
                    [] body.status = "ok" ->
                         \E t2 \in Times(t1) : \E t3 \in Times(t2) :
                           Returns(cache_result(g.svc, kind, text, body.out,
                                                target_tone, t2, t3),
                                   t3, cl1,
                                   SuccessResult(kind, body.out, text, t1 - t0,
                                                 FALSE, target_tone))

Idle == call.op = "idle"

\* GrammarCorrector.fix_grammar
fix_grammar(text) ==
    /\ Idle /\ calls < MaxCalls
    /\ \E is_loaded \in BOOLEAN : Process("grammar", text, formal, is_loaded)
    /\ UNCHANGED <<prev, lru_vars, svc_op, conc_vars, ext_vars>>

\* TextSummarizer.summarize
summarize(text) ==
    /\ Idle /\ calls < MaxCalls
    /\ \E is_loaded \in BOOLEAN : Process("summary", text, formal, is_loaded)
    /\ UNCHANGED <<prev, lru_vars, svc_op, conc_vars, ext_vars>>

\* ToneChanger.change_tone
change_tone(text, target_tone) ==
    /\ Idle /\ calls < MaxCalls
    /\ \E is_loaded \in BOOLEAN : Process("tone", text, target_tone, is_loaded)
    /\ UNCHANGED <<prev, lru_vars, svc_op, conc_vars, ext_vars>>

\* the caller makes the call it has just made a second time
Repeat ==
    /\ ~Idle /\ prev = NoPrev /\ calls < MaxCalls
    /\ \E is_loaded \in BOOLEAN : Process(call.op, call.text, call.tone, is_loaded)
    /\ prev' = [call |-> call, result |-> result]
    /\ UNCHANGED <<lru_vars, svc_op, conc_vars, ext_vars>>

\* the caller is done with the result
Return ==
    /\ ~Idle
    /\ call' = IdleCall
    /\ result' = NoResult
    /\ prev' = NoPrev
    /\ UNCHANGED <<cache_service, clock, calls, lru_vars, svc_op, conc_vars, ext_vars>>

\* CacheService.clear_all_caches
ClearAllCaches ==
    /\ Idle
    /\ cache_service # clear_all_caches(cache_service)
    /\ cache_service' = clear_all_caches(cache_service)
    /\ UNCHANGED <<clock, call, result, prev, calls, lru_vars, svc_op, conc_vars, ext_vars>>

SvcInit ==
    /\ cache_service = CacheService
    /\ call = IdleCall
    /\ result = NoResult
    /\ prev = NoPrev
    /\ calls = 0

Next ==
    \/ \E text \in Texts : fix_grammar(text)
    \/ \E text \in Texts : summarize(text)
    \/ \E text \in Texts, target_tone \in Tones : change_tone(text, target_tone)
    \/ Repeat
    \/ Return
    \/ ClearAllCaches

\* ------------------------------------------- CacheService, called directly
\* mutation of CacheServiceOf: the summary and tone caches are not halved
CacheServiceOf_unhalved(max_cache_size, cleanup_batch_size) ==
    [grammar |-> LRUCache(max_cache_size, cleanup_batch_size),
     summary |-> LRUCache(max_cache_size, cleanup_batch_size),
     tone    |-> LRUCache(max_cache_size, cleanup_batch_size)]

\* CacheService.__init__ for a configured max_cache_size / cleanup_batch_size
CacheServiceOf(max_cache_size, cleanup_batch_size) ==
    [grammar |-> LRUCache(max_cache_size, cleanup_batch_size),
     summary |-> LRUCache(max_cache_size \div 2, cleanup_batch_size),
     tone    |-> LRUCache(max_cache_size \div 2, cleanup_batch_size)]

\* the configurations the service is built with: the small caches hold one
\* entry in the first and two in the last; the one between has a
\* max_cache_size of the other parity
SvcConfigs ==
    {<<MaxCacheSize, CleanupBatch>>, <<MaxCacheSize + 1, CleanupBatch>>,
     <<2 * MaxCacheSize, CleanupBatch>>}

\* CacheService.get_cache_stats
get_cache_stats(svc) ==
    [grammar_cache_size |-> size(svc.grammar),
     summary_cache_size |-> size(svc.summary),
     tone_cache_size |-> size(svc.tone),
     grammar_cache_max |-> svc.grammar.max_size,
     summary_cache_max |-> svc.summary.max_size,
     tone_cache_max |-> svc.tone.max_size]

\* the arguments of the direct calls
KeyTexts == {<<"a">>, Wrapped(<<"A">>), <<"a", "a">>}
KeyValues == {<<"v">>, <<"w">>}
KeyTones == {formal, casual}
\* every string of up to three characters over blank, lower and upper case
NormInputs == UNION {[1..n -> {" ", "a", "A"}] : n \in 0..3}

\* the record of a direct call: name, arguments, return value, the keys its
\* put evicted, and the number of calls so far
NoSvcOp ==
    [op |-> "init", kind |-> "", text |-> <<>>, tone |-> <<>>, value |-> <<>>,
     ret |-> None, removed |-> {}, n |-> 0]

KeysFrame == UNCHANGED <<lru_vars, call, result, prev, calls, conc_vars, ext_vars>>

\* CacheService._normalize_key(s)
NormalizeKey(s) ==
    /\ svc_op.n < MaxSvcOps
    /\ svc_op' = [NoSvcOp EXCEPT !.op = "normalize", !.text = s,
                                 !.ret = Some(_normalize_key(s)),
                                 !.n = svc_op.n + 1]
    /\ UNCHANGED <<cache_service, clock>>
    /\ KeysFrame

\* cache_grammar_correction / cache_summary / cache_tone_change
CacheResult(kind, text, value, tone) ==
    /\ svc_op.n < MaxSvcOps
    /\ \E t1 \in Times(clock) : \E t2 \in Times(t1) :
         /\ cache_service' = cache_result(cache_service, kind, text, value, tone, t1, t2)
         /\ clock' = t2
    /\ svc_op' = [NoSvcOp EXCEPT !.op = "cache", !.kind = kind, !.text = text,
                                 !.tone = tone, !.value = value,
                                 !.removed = RemovedByPut(cache_service[kind]),
                                 !.n = svc_op.n + 1]
    /\ KeysFrame

\* get_grammar_correction / get_summary / get_tone_change
GetCached(kind, text, tone) ==
    /\ svc_op.n < MaxSvcOps
    /\ \E t \in Times(clock) :
         LET g == get_cached(cache_service, kind, text, tone, t) IN
         /\ g.ret = None => t = clock
         /\ cache_service' = g.svc
         /\ clock' = t
         /\ svc_op' = [NoSvcOp EXCEPT !.op = "get", !.kind = kind, !.text = text,
                                      !.tone = tone, !.ret = g.ret,
                                      !.n = svc_op.n + 1]
    /\ KeysFrame

\* CacheService.get_cache_stats
GetCacheStats ==
    /\ svc_op.n < MaxSvcOps
    /\ svc_op' = [NoSvcOp EXCEPT !.op = "stats",
                                 !.ret = Some(get_cache_stats(cache_service)),
                                 !.n = svc_op.n + 1]
    /\ UNCHANGED <<cache_service, clock>>
    /\ KeysFrame

\* CacheService.clear_all_caches
ClearAll ==
    /\ svc_op.n < MaxSvcOps
    /\ cache_service' = clear_all_caches(cache_service)
    /\ svc_op' = [NoSvcOp EXCEPT !.op = "clear", !.n = svc_op.n + 1]
    /\ UNCHANGED clock
    /\ KeysFrame

\* the tone argument: get_tone_change / cache_tone_change take one, the
\* others do not
TonesOf(kind) == IF kind = "tone" THEN KeyTones ELSE {formal}

KeysNext ==
    \/ \E s \in NormInputs : NormalizeKey(s)
    \/ \E kind \in Kinds, text \in KeyTexts, value \in KeyValues :
          \E tone \in TonesOf(kind) : CacheResult(kind, text, value, tone)
    \/ \E kind \in Kinds, text \in KeyTexts :
          \E tone \in TonesOf(kind) : GetCached(kind, text, tone)
    \/ GetCacheStats
    \/ ClearAll

\* the caller calls the processor it has just called again, with a text of
\* its choice and the same tone
RepeatAs(text) ==
    /\ ~Idle /\ calls < MaxCalls
    /\ \E is_loaded \in BOOLEAN : Process(call.op, text, call.tone, is_loaded)
    /\ prev' = [call |-> call, result |-> result]
    /\ UNCHANGED <<lru_vars, svc_op, conc_vars, ext_vars>>

\* texts that differ in case, in surrounding whitespace, and in more
VariantTexts == {<<"a">>, <<"A">>, Wrapped(<<"a">>), <<"a", "a">>}

VariantsNext ==
    \/ \E text \in VariantTexts : fix_grammar(text)
    \/ \E text \in VariantTexts : summarize(text)
    \/ \E text \in VariantTexts : change_tone(text, formal)
    \/ \E text \in VariantTexts : RepeatAs(text)

\* one processor invocation over a CacheService into which the empty string
\* is also written directly, through its public cache_<op> methods
SeedTexts == {<<"a">>, Wrapped(<<"A">>)}

SeededNext ==
    \/ \E kind \in Kinds : \E tone \in TonesOf(kind) :
          CacheResult(kind, <<"a">>, <<>>, tone)
    \/ \E text \in SeedTexts : fix_grammar(text)
    \/ \E text \in SeedTexts : summarize(text)
    \/ \E text \in SeedTexts, target_tone \in KeyTones : change_tone(text, target_tone)

\* the tone changer's cache calls with texts and tones that hold the "_" the
\* key is joined with; change_tone looks the key up before it checks the tone,
\* so every tone string reaches get_tone_change
UnderscoreTexts == {<<"a">>, <<"a", "_">>, Wrapped(<<"A">>)}
UnderscoreTones == {formal, <<"_">> \o formal, casual}

ToneKeysNext ==
    \/ \E text \in UnderscoreTexts, value \in KeyValues, tone \in UnderscoreTones :
          CacheResult("tone", text, value, tone)
    \/ \E text \in UnderscoreTexts, tone \in UnderscoreTones :
          GetCached("tone", text, tone)

\* ------------------------------------------------------------------ threads
Threads == {"t1", "t2"}
NoThread == "none"
\* the caches that have a lock: the stand-alone one and the service's three
CacheNames == {"lru"} \cup Kinds

\* A thread: the service call it is in (call), the LRUCache method it is
\* running (op on cache, with key and value), its position in the method (pc),
\* its locals (tmp: the access_count read by "+= 1"; t1, t2: the times read),
\* what the method returns (ret), the methods still to run for the call (todo),
\* the calls it has started (n); snap is the cache as it was when the lock
\* was taken and waited tells that the lock was held when the method began.
IdleThread ==
    [pc |-> "idle", call |-> "", cache |-> "", op |-> "", key |-> <<>>,
     value |-> <<>>, tmp |-> 0, t1 |-> 0, t2 |-> 0, ret |-> None, snap |-> None,
     todo |-> <<>>, n |-> 0, waited |-> FALSE]

ConcInit ==
    /\ locks = [c \in CacheNames |-> NoThread]
    /\ thr = [t \in Threads |-> IdleThread]
    /\ hits = <<>>

\* the keys and the value the threads use
ThreadKeys == {<<"a">>, <<"b">>}
ThreadValue == <<"v">>

\* the cache a name stands for, and the assignment to it
CacheOf(name) == IF name = "lru" THEN lru ELSE cache_service[name]

SetCache(name, c) ==
    IF name = "lru"
    THEN lru' = c /\ UNCHANGED cache_service
    ELSE cache_service' = [cache_service EXCEPT ![name] = c] /\ UNCHANGED lru

\* hits: a count per <<cache, key>>, 0 where nothing is recorded
HitsOf(h, x) == IF x \in DOMAIN h THEN h[x] ELSE 0
SetHit(h, x, v) == [y \in DOMAIN h \cup {x} |-> IF y = x THEN v ELSE h[y]]
DropHits(h, X) == [y \in DOMAIN h \ X |-> h[y]]

\* calls started so far, over all threads
Started ==
    LET F[S \in SUBSET Threads] ==
            IF S = {} THEN 0
            ELSE LET t == CHOOSE x \in S : TRUE IN thr[t].n + F[S \ {t}]
    IN F[Threads]

\* where a method begins once it has the lock
FirstStep(op) ==
    CASE op = "get" -> "get_lookup"
      [] op = "put" -> "put_check"
      [] op = "contains" -> "contains"
      [] op = "size" -> "size"
      [] op = "clear" -> "clear"

\* one LRUCache method call, as the service or a caller issues it
MethodCall(cache, op, key, value) ==
    [cache |-> cache, op |-> op, key |-> key, value |-> value]

\* the thread enters a method: it stands before "with self._lock"
BeginOp(r, m) ==
    [r EXCEPT !.pc = "acquire", !.cache = m.cache, !.op = m.op, !.key = m.key,
              !.value = m.value, !.tmp = 0, !.t1 = 0, !.t2 = 0, !.ret = None,
              !.snap = None, !.waited = (locks[m.cache] # NoThread)]

ThreadFrame == UNCHANGED <<lru_op, call, result, prev, calls, svc_op, ext_vars>>

\* mutation of CanAcquire: the lock does not exclude anybody
CanAcquire_always(holder) == TRUE

\* threading.Lock: acquire blocks while some thread holds the lock
\* (the lock is not reentrant: the holder itself would block as well)
CanAcquire(holder) == holder = NoThread

\* mutation of CleanupAcquires: _cleanup takes the lock itself
CleanupAcquires_lock == TRUE

\* does _cleanup acquire self._lock?  (it has no "with self._lock")
CleanupAcquires == FALSE

\* mutation of store: a key that is present keeps the entry it has
store_keeps_first(c, key, value, t1, t2) ==
    IF IndexOf(c._cache, key) # 0
    THEN c
    ELSE [c EXCEPT !._cache = Append(c._cache, CacheEntry(key, value, t1, t2))]

\* self._cache[key] = CacheEntry(value): the last statement of put
store(c, key, value, t1, t2) ==
    LET i == IndexOf(c._cache, key)
        e == CacheEntry(key, value, t1, t2)
    IN  IF i # 0
        THEN [c EXCEPT !._cache[i] = e]
        ELSE [c EXCEPT !._cache = Append(c._cache, e)]

\* a caller thread calls a method of the stand-alone LRUCache
ThreadCall(t, op, key) ==
    /\ thr[t].pc = "idle"
    /\ Started < MaxThreadOps
    /\ thr' = [thr EXCEPT ![t] =
            [BeginOp(IdleThread, MethodCall("lru", op, key, ThreadValue))
                EXCEPT !.call = op, !.n = thr[t].n + 1]]
    /\ UNCHANGED <<clock, lru, cache_service, locks, hits>>
    /\ ThreadFrame

\* mutation of MethodsOf: clear_all_caches forgets the tone cache
MethodsOf_clear_forgets_tone(name, kind) ==
    LET key == CacheKey(kind, <<"a">>, formal) IN
    CASE name = "process" ->
            <<MethodCall(kind, "get", key, <<>>),
              MethodCall(kind, "put", key, ThreadValue)>>
      [] name = "stats" ->
            <<MethodCall("grammar", "size", <<>>, <<>>),
              MethodCall("summary", "size", <<>>, <<>>),
              MethodCall("tone", "size", <<>>, <<>>)>>
      [] name = "clear" ->
            <<MethodCall("grammar", "clear", <<>>, <<>>),
              MethodCall("summary", "clear", <<>>, <<>>)>>

\* the methods a service-level call runs, in order
\*   process: a processor's get_<kind>, then cache_<kind> unless the get hit
\*   stats:   get_cache_stats, size() of the three caches
\*   clear:   clear_all_caches, clear() of the three caches
MethodsOf(name, kind) ==
    LET key == CacheKey(kind, <<"a">>, formal) IN
    CASE name = "process" ->
            <<MethodCall(kind, "get", key, <<>>),
              MethodCall(kind, "put", key, ThreadValue)>>
      [] name = "stats" ->
            <<MethodCall("grammar", "size", <<>>, <<>>),
              MethodCall("summary", "size", <<>>, <<>>),
              MethodCall("tone", "size", <<>>, <<>>)>>
      [] name = "clear" ->
            <<MethodCall("grammar", "clear", <<>>, <<>>),
              MethodCall("summary", "clear", <<>>, <<>>),
              MethodCall("tone", "clear", <<>>, <<>>)>>

\* a thread starts a processor call or a CacheService call
ServiceCall(t, name, kind) ==
    /\ thr[t].pc = "idle"
    /\ Started < MaxServiceCalls
    /\ LET ms == MethodsOf(name, kind) IN
       thr' = [thr EXCEPT ![t] =
            [BeginOp(IdleThread, Head(ms))
                EXCEPT !.call = name, !.todo = Tail(ms), !.n = thr[t].n + 1]]
    /\ UNCHANGED <<clock, lru, cache_service, locks, hits>>
    /\ ThreadFrame

\* with self._lock: (entry)
Acquire(t) ==
    LET r == thr[t] IN
    /\ r.pc = "acquire"
    /\ CanAcquire(locks[r.cache])
    /\ locks' = [locks EXCEPT ![r.cache] = t]
    /\ thr' = [thr EXCEPT ![t] =
            [r EXCEPT !.pc = FirstStep(r.op), !.snap = Some(CacheOf(r.cache))]]
    /\ UNCHANGED <<clock, lru, cache_service, hits>>
    /\ ThreadFrame

\* get: if key in self._cache ... else return None
GetLookup(t) ==
    LET r == thr[t] IN
    /\ r.pc = "get_lookup"
    /\ thr' = [thr EXCEPT ![t] =
            IF contains(CacheOf(r.cache), r.key)
            THEN [r EXCEPT !.pc = "get_read"]
            ELSE [r EXCEPT !.pc = "release", !.ret = None]]
    /\ UNCHANGED <<clock, lru, cache_service, locks, hits>>
    /\ ThreadFrame

\* entry.access(): self.access_count += 1 reads the counter ...
GetRead(t) ==
    LET r == thr[t]
        d == CacheOf(r.cache)._cache
        i == IndexOf(d, r.key)
    IN
    /\ r.pc = "get_read"
    /\ thr' = [thr EXCEPT ![t] =
            IF i # 0
            THEN [r EXCEPT !.pc = "get_write", !.tmp = d[i].access_count]
            ELSE [r EXCEPT !.pc = "release"]]
    /\ UNCHANGED <<clock, lru, cache_service, locks, hits>>
    /\ ThreadFrame

\* ... and stores the counter plus one
GetWrite(t) ==
    LET r == thr[t]
        c == CacheOf(r.cache)
        i == IndexOf(c._cache, r.key)
    IN
    /\ r.pc = "get_write"
    /\ IF i # 0
       THEN /\ SetCache(r.cache, [c EXCEPT !._cache[i].access_count = r.tmp + 1])
            /\ hits' = SetHit(hits, <<r.cache, r.key>>,
                              HitsOf(hits, <<r.cache, r.key>>) + 1)
            /\ thr' = [thr EXCEPT ![t] = [r EXCEPT !.pc = "get_time"]]
       ELSE /\ UNCHANGED <<lru, cache_service, hits>>
            /\ thr' = [thr EXCEPT ![t] = [r EXCEPT !.pc = "release"]]
    /\ UNCHANGED <<clock, locks>>
    /\ ThreadFrame

\* self.last_accessed = time.time(); return self.value
GetTime(t) ==
    LET r == thr[t]
        c == CacheOf(r.cache)
        i == IndexOf(c._cache, r.key)
    IN
    /\ r.pc = "get_time"
    /\ IF i # 0
       THEN \E tt \in Times(clock) :
            /\ SetCache(r.cache, [c EXCEPT !._cache[i].last_accessed = tt])
            /\ clock' = tt
            /\ thr' = [thr EXCEPT ![t] =
                    [r EXCEPT !.pc = "release", !.t2 = tt,
                              !.ret = Some(c._cache[i].value)]]
       ELSE /\ UNCHANGED <<lru, cache_service, clock>>
            /\ thr' = [thr EXCEPT ![t] = [r EXCEPT !.pc = "release"]]
    /\ UNCHANGED <<locks, hits>>
    /\ ThreadFrame

\* put: if len(self._cache) >= self.max_size: self._cleanup()
PutCheck(t) ==
    LET r == thr[t] IN
    /\ r.pc = "put_check"
    /\ thr' = [thr EXCEPT ![t] =
            [r EXCEPT !.pc = IF PutAtCapacity(CacheOf(r.cache))
                             THEN "cleanup" ELSE "put_store"]]
    /\ UNCHANGED <<clock, lru, cache_service, locks, hits>>
    /\ ThreadFrame

\* _cleanup, called by put with the lock held
Cleanup(t) ==
    LET r == thr[t]
        c == CacheOf(r.cache)
    IN
    /\ r.pc = "cleanup"
    /\ CleanupAcquires => CanAcquire(locks[r.cache])
    /\ SetCache(r.cache, _cleanup(c))
    /\ hits' = DropHits(hits, {<<r.cache, c._cache[i].key>> : i \in CleanupVictims(c)})
    /\ thr' = [thr EXCEPT ![t] = [r EXCEPT !.pc = "put_store"]]
    /\ UNCHANGED <<clock, locks>>
    /\ ThreadFrame

\* put: self._cache[key] = CacheEntry(value)
PutStore(t) ==
    LET r == thr[t] IN
    /\ r.pc = "put_store"
    /\ \E t1 \in Times(clock) : \E t2 \in Times(t1) :
         /\ SetCache(r.cache, store(CacheOf(r.cache), r.key, r.value, t1, t2))
         /\ clock' = t2
         /\ thr' = [thr EXCEPT ![t] = [r EXCEPT !.pc = "release", !.t1 = t1, !.t2 = t2]]
    /\ hits' = DropHits(hits, {<<r.cache, r.key>>})
    /\ UNCHANGED locks
    /\ ThreadFrame

\* contains: return key in self._cache
ContainsStep(t) ==
    LET r == thr[t] IN
    /\ r.pc = "contains"
    /\ thr' = [thr EXCEPT ![t] =
            [r EXCEPT !.pc = "release",
                      !.ret = Some(contains(CacheOf(r.cache), r.key))]]
    /\ UNCHANGED <<clock, lru, cache_service, locks, hits>>
    /\ ThreadFrame

\* size: return len(self._cache)
SizeStep(t) ==
    LET r == thr[t] IN
    /\ r.pc = "size"
    /\ thr' = [thr EXCEPT ![t] =
            [r EXCEPT !.pc = "release", !.ret = Some(size(CacheOf(r.cache)))]]
    /\ UNCHANGED <<clock, lru, cache_service, locks, hits>>
    /\ ThreadFrame

\* clear: self._cache.clear()
ClearStep(t) ==
    LET r == thr[t]
        c == CacheOf(r.cache)
    IN
    /\ r.pc = "clear"
    /\ SetCache(r.cache, clear(c))
    /\ hits' = DropHits(hits, {<<r.cache, k>> : k \in KeysOf(c._cache)})
    /\ thr' = [thr EXCEPT ![t] = [r EXCEPT !.pc = "release"]]
    /\ UNCHANGED <<clock, locks>>
    /\ ThreadFrame

\* the end of "with self._lock": the lock is released and the method returns;
\* the call goes on with its next method, if any (a processor whose lookup
\* returned a value does not store one)
Release(t) ==
    LET r == thr[t]
        hit == r.call = "process" /\ r.op = "get" /\ Truthy(r.ret)
    IN
    /\ r.pc = "release"
    /\ locks' = [locks EXCEPT ![r.cache] = NoThread]
    /\ thr' = [thr EXCEPT ![t] =
            IF r.todo = <<>> \/ hit
            THEN [r EXCEPT !.pc = "idle", !.todo = <<>>]
            ELSE [BeginOp(r, Head(r.todo)) EXCEPT
                     !.todo = Tail(r.todo),
                     !.waited = (locks'[Head(r.todo).cache] # NoThread)]]
    /\ UNCHANGED <<clock, lru, cache_service, hits>>
    /\ ThreadFrame

\* the steps of a thread inside a method of the service's caches
LockedStep(t) ==
    \/ Acquire(t)
    \/ GetLookup(t) \/ GetRead(t) \/ GetWrite(t) \/ GetTime(t)
    \/ PutCheck(t) \/ Cleanup(t) \/ PutStore(t)
    \/ SizeStep(t) \/ ClearStep(t)
    \/ Release(t)

ThreadsNext ==
    \/ \E t \in Threads, op \in {"get", "put", "contains", "size", "clear"} :
          \E key \in (IF op \in {"size", "clear"} THEN {<<>>} ELSE ThreadKeys) :
             ThreadCall(t, op, key)
    \/ \E t \in Threads : Acquire(t)
    \/ \E t \in Threads : GetLookup(t)
    \/ \E t \in Threads : GetRead(t)
    \/ \E t \in Threads : GetWrite(t)
    \/ \E t \in Threads : GetTime(t)
    \/ \E t \in Threads : PutCheck(t)
    \/ \E t \in Threads : Cleanup(t)
    \/ \E t \in Threads : PutStore(t)
    \/ \E t \in Threads : ContainsStep(t)
    \/ \E t \in Threads : SizeStep(t)
    \/ \E t \in Threads : ClearStep(t)
    \/ \E t \in Threads : Release(t)

\* the processors the threads call: the grammar corrector, whose cache is the
\* large one, and the tone changer, whose cache is built like the summarizer's
ProcessKinds == {"grammar", "tone"}

LocksNext ==
    \/ \E t \in Threads, kind \in ProcessKinds : ServiceCall(t, "process", kind)
    \/ \E t \in Threads : ServiceCall(t, "stats", "grammar")
    \/ \E t \in Threads : ServiceCall(t, "clear", "grammar")
    \/ \E t \in Threads : Acquire(t)
    \/ \E t \in Threads : GetLookup(t)
    \/ \E t \in Threads : GetRead(t)
    \/ \E t \in Threads : GetWrite(t)
    \/ \E t \in Threads : GetTime(t)
    \/ \E t \in Threads : PutCheck(t)
    \/ \E t \in Threads : Cleanup(t)
    \/ \E t \in Threads : PutStore(t)
    \/ \E t \in Threads : SizeStep(t)
    \/ \E t \in Threads : ClearStep(t)
    \/ \E t \in Threads : Release(t)

\* ---------------------------------------------------------------- singleton
\* get_cache_service() has four steps and takes no lock, so threads interleave
\* between them:
\*     if _cache_service is None:          check
\*         _cache_service = CacheService() construct, then assign
\*     return _cache_service               return (reads the global again)
\* A CacheService object is named by the order of its construction (1, 2, ..).
\* A thread: its position (pc), who called (via: "main" for a direct call,
\* "processor" for BaseTextProcessor.__init__), the object it has constructed
\* and not yet assigned (made), the objects its calls have returned (got), the
\* cache_service of the processor it built last (self_cache_service, 0: none)
\* and the calls it has started (n).
IdleGetter ==
    [pc |-> "idle", via |-> "", made |-> 0, got |-> {},
     self_cache_service |-> 0, n |-> 0]

SingletonInit ==
    /\ _cache_service = None
    /\ instances = 0
    /\ getter = [t \in Threads |-> IdleGetter]

\* get_cache_service() calls started so far, over all threads
GetCalls ==
    LET F[S \in SUBSET Threads] ==
            IF S = {} THEN 0
            ELSE LET t == CHOOSE x \in S : TRUE IN getter[t].n + F[S \ {t}]
    IN F[Threads]

SingletonFrame ==
    UNCHANGED <<clock, lru_vars, svc_vars, svc_op, conc_vars, proc, request,
                hotkey>>

\* a caller (main.py, _initialize_services) calls get_cache_service()
get_cache_service(t) ==
    /\ getter[t].pc = "idle"
    /\ GetCalls < MaxGetCalls
    /\ getter' = [getter EXCEPT ![t] =
            [@ EXCEPT !.pc = "check", !.via = "main", !.n = @ + 1]]
    /\ UNCHANGED <<_cache_service, instances>>
    /\ SingletonFrame

\* BaseTextProcessor.__init__: self.cache_service = cache_service or
\* get_cache_service(); an injected service (a CacheService object is truthy)
\* is taken as it is, otherwise the singleton is asked for
BaseTextProcessor_init(t, injected) ==
    /\ getter[t].pc = "idle"
    /\ GetCalls < MaxGetCalls
    /\ getter' = [getter EXCEPT ![t] =
            IF injected # None
            THEN [@ EXCEPT !.self_cache_service = injected[1]]
            ELSE [@ EXCEPT !.pc = "check", !.via = "processor", !.n = @ + 1]]
    /\ UNCHANGED <<_cache_service, instances>>
    /\ SingletonFrame

\* if _cache_service is None:
CheckGlobal(t) ==
    /\ getter[t].pc = "check"
    /\ getter' = [getter EXCEPT ![t].pc =
            IF _cache_service = None THEN "construct" ELSE "return"]
    /\ UNCHANGED <<_cache_service, instances>>
    /\ SingletonFrame

\* CacheService(): a new object is constructed
Construct(t) ==
    /\ getter[t].pc = "construct"
    /\ instances' = instances + 1
    /\ getter' = [getter EXCEPT ![t] =
            [@ EXCEPT !.pc = "assign", !.made = instances + 1]]
    /\ UNCHANGED _cache_service
    /\ SingletonFrame

\* _cache_service = <the new object>
AssignGlobal(t) ==
    /\ getter[t].pc = "assign"
    /\ _cache_service' = Some(getter[t].made)
    /\ getter' = [getter EXCEPT ![t] = [@ EXCEPT !.pc = "return", !.made = 0]]
    /\ UNCHANGED instances
    /\ SingletonFrame

\* return _cache_service
ReturnGlobal(t) ==
    LET r == getter[t]
        ret == _cache_service[1]
    IN
    /\ r.pc = "return"
    /\ getter' = [getter EXCEPT ![t] =
            [r EXCEPT !.pc = "idle", !.via = "", !.got = @ \cup {ret},
                      !.self_cache_service =
                            IF r.via = "processor" THEN ret ELSE @]]
    /\ UNCHANGED <<_cache_service, instances>>
    /\ SingletonFrame

\* the services a caller can inject: none, or one it was given before
Injectable(t) == {None} \cup {Some(i) : i \in getter[t].got}

SingletonNext ==
    \/ \E t \in Threads : get_cache_service(t)
    \/ \E t \in Threads : \E injected \in Injectable(t) :
          BaseTextProcessor_init(t, injected)
    \/ \E t \in Threads : CheckGlobal(t)
    \/ \E t \in Threads : Construct(t)
    \/ \E t \in Threads : AssignGlobal(t)
    \/ \E t \in Threads : ReturnGlobal(t)

\* ------------------------------------------------- invocations on threads
\* A processor invocation, statement by statement, on the thread that made it
\* (the hotkey callback thread, or any other caller thread).  The cache
\* lookup and the cache store are LRUCache.get and LRUCache.put as the threads
\* above run them, lock and all.
\*   pc        validate, available, lookup, generate, store, done (idle: none)
\*   cached    what the lookup returned
\*   t0, t1    start_time and the time.time() after generate_response
\*   generate_calls, cache_puts   calls made to generate_response / cache_<op>
\*   abandoned the caller has stopped waiting for this invocation
\*   n         invocations this thread has started
IdleProc ==
    [pc |-> "idle", kind |-> "", text |-> <<>>, tone |-> <<>>, cached |-> None,
     t0 |-> 0, t1 |-> 0, out |-> <<>>, result |-> NoResult,
     generate_calls |-> 0, cache_puts |-> 0, abandoned |-> FALSE, n |-> 0]

ProcInit == proc = [t \in Threads |-> IdleProc]

\* invocations started so far, over all threads
Invocations ==
    LET F[S \in SUBSET Threads] ==
            IF S = {} THEN 0
            ELSE LET t == CHOOSE x \in S : TRUE IN proc[t].n + F[S \ {t}]
    IN F[Threads]

\* what the callers pass in, and what the provider answers to each thread:
\* the two threads' generated texts differ, so a cached value tells its writer
\* <<kind, text, target_tone>>: a text and a blank one for the grammar
\* corrector, the supported tone and another one for the tone changer
Invoked ==
    {<<"grammar", <<"a">>, formal>>, <<"grammar", <<" ">>, formal>>,
     <<"tone", <<"a">>, formal>>, <<"tone", <<"a">>, casual>>}
GeneratedBy(t) == IF t = "t1" THEN <<"x">> ELSE <<"y">>
ResponsesTo(t) ==
    {Response("ok", GeneratedBy(t), None, <<>>),
     Response("ok", <<>>, None, <<>>),
     Response("fail", <<>>, Some(<<"model error">>), <<>>),
     Response("raise", <<>>, None, <<"boom">>)}

InvokeFrame ==
    UNCHANGED <<lru_vars, call, result, prev, calls, svc_op, single_vars,
                request, hotkey>>

\* the invocation returns res
Done(r, res) == [r EXCEPT !.pc = "done", !.result = res]

\* the thread enters a method of the cache of its kind
EnterCache(t, op, value) ==
    LET r == proc[t] IN
    thr' = [thr EXCEPT ![t] =
        [BeginOp(IdleThread,
                 MethodCall(r.kind, op, CacheKey(r.kind, r.text, r.tone), value))
            EXCEPT !.call = r.kind]]

\* a caller thread calls fix_grammar(text) or change_tone(text, target_tone)
Invoke(t, kind, text, target_tone) ==
    /\ proc[t].pc = "idle"
    /\ thr[t].pc = "idle"
    /\ Invocations < MaxInvocations
    /\ proc' = [proc EXCEPT ![t] =
            [IdleProc EXCEPT !.pc = "validate", !.kind = kind, !.text = text,
                             !.tone = target_tone, !.n = proc[t].n + 1]]
    /\ UNCHANGED <<clock, cache_service, conc_vars>>
    /\ InvokeFrame

\* if not self._validate_input(text): return error
ValidateInput(t) ==
    LET r == proc[t] IN
    /\ r.pc = "validate"
    /\ proc' = [proc EXCEPT ![t] =
            IF ~_validate_input(r.text)
            THEN Done(r, _create_error_result(r.text, Some(InvalidInputMsg)))
            ELSE [r EXCEPT !.pc = "available"]]
    /\ UNCHANGED <<clock, cache_service, conc_vars>>
    /\ InvokeFrame

\* if not self.is_available(): return error; otherwise the cache is asked:
\* cached_result = self.cache_service.get_<op>(text)
CheckAvailable(t, is_loaded) ==
    LET r == proc[t] IN
    /\ r.pc = "available"
    /\ IF ~is_available(is_loaded)
       THEN /\ proc' = [proc EXCEPT ![t] =
                    Done(r, _create_error_result(r.text, Some(UnavailableMsg(r.kind))))]
            /\ UNCHANGED thr
       ELSE /\ proc' = [proc EXCEPT ![t] = [r EXCEPT !.pc = "lookup"]]
            /\ EnterCache(t, "get", <<>>)
    /\ UNCHANGED <<clock, cache_service, locks, hits>>
    /\ InvokeFrame

\* mutation of RetriesInference: a failed inference is tried once more
RetriesInference_once(r) == r.generate_calls < 2

\* does the invocation call generate_response again after a failure?  (the
\* try body has no loop: every failure returns)
RetriesInference(r) == FALSE

\* if cached_result: return it; else (tone: the target tone is checked)
\* start_time = time.time() and generate_response(...) is called
AfterLookup(t) ==
    LET r == proc[t]
        ret == thr[t].ret
    IN
    /\ r.pc = "lookup"
    /\ thr[t].pc = "idle"
    /\ IF Truthy(ret)
       THEN /\ proc' = [proc EXCEPT ![t] =
                    Done([r EXCEPT !.cached = ret],
                         SuccessResult(r.kind, ret[1], r.text, 0, TRUE, r.tone))]
            /\ UNCHANGED clock
       ELSE \E t0 \in Times(clock) :
            /\ clock' = t0
            /\ proc' = [proc EXCEPT ![t] =
                    IF r.kind = "tone" /\ ~ToneSupported(r.tone)
                    THEN Done([r EXCEPT !.cached = ret, !.t0 = t0],
                              _create_error_result(r.text,
                                    Some(UnsupportedToneMsg(r.tone))))
                    ELSE [r EXCEPT !.pc = "generate", !.cached = ret, !.t0 = t0,
                                   !.generate_calls = @ + 1]]
    /\ UNCHANGED <<cache_service, conc_vars>>
    /\ InvokeFrame

\* generate_response returns (or raises); processing_time is taken, the
\* response is validated and, when it is good, cache_<op> is called
GenerateResponse(t, resp) ==
    LET r == proc[t]
        body == TryBody(r.kind, r.text, resp)
    IN
    /\ r.pc = "generate"
    /\ \E t1 \in (IF resp.kind = "raise" THEN {clock} ELSE Times(clock)) :
        /\ clock' = t1
        /\ CASE body.status = "ok" ->
                  /\ proc' = [proc EXCEPT ![t] =
                        [r EXCEPT !.pc = "store", !.t1 = t1, !.out = body.out,
                                  !.cache_puts = @ + 1]]
                  /\ EnterCache(t, "put", body.out)
             [] body.status # "ok" /\ RetriesInference(r) ->
                  /\ proc' = [proc EXCEPT ![t] =
                        [r EXCEPT !.generate_calls = @ + 1]]
                  /\ UNCHANGED thr
             [] body.status = "raise" /\ ~RetriesInference(r) ->
                  /\ proc' = [proc EXCEPT ![t] =
                        Done([r EXCEPT !.t1 = t1], ExceptHandler(r.text, body.msg))]
                  /\ UNCHANGED thr
             [] body.status = "error" /\ ~RetriesInference(r) ->
                  /\ proc' = [proc EXCEPT ![t] =
                        Done([r EXCEPT !.t1 = t1],
                             _create_error_result(r.text, body.error))]
                  /\ UNCHANGED thr
    /\ UNCHANGED <<cache_service, locks, hits>>
    /\ InvokeFrame

\* cache_<op> has returned: return the result with from_cache False
ReturnSuccess(t) ==
    LET r == proc[t] IN
    /\ r.pc = "store"
    /\ thr[t].pc = "idle"
    /\ proc' = [proc EXCEPT ![t] =
            Done(r, SuccessResult(r.kind, r.out, r.text, r.t1 - r.t0, FALSE, r.tone))]
    /\ UNCHANGED <<clock, cache_service, conc_vars>>
    /\ InvokeFrame

\* the caller has taken the result
Finish(t) ==
    /\ proc[t].pc = "done"
    /\ proc' = [proc EXCEPT ![t] = [IdleProc EXCEPT !.n = proc[t].n]]
    /\ thr' = [thr EXCEPT ![t] = IdleThread]
    /\ UNCHANGED <<clock, cache_service, locks, hits>>
    /\ InvokeFrame

\* a timeout the caller has put around the call expires while the inference
\* is in flight: the caller stops waiting; the thread of the invocation is
\* not told (nothing in the processors reads a cancellation)
Abandon(t) ==
    /\ proc[t].pc = "generate"
    /\ ~proc[t].abandoned
    /\ proc' = [proc EXCEPT ![t].abandoned = TRUE]
    /\ UNCHANGED <<clock, cache_service, conc_vars>>
    /\ InvokeFrame

\* the steps of a thread's invocation, those inside the cache included
InvocationStep(t) ==
    \/ ValidateInput(t)
    \/ \E is_loaded \in BOOLEAN : CheckAvailable(t, is_loaded)
    \/ AfterLookup(t)
    \/ \E resp \in ResponsesTo(t) : GenerateResponse(t, resp)
    \/ ReturnSuccess(t)
    \/ LockedStep(t)

InvocationsNext ==
    \/ \E t \in Threads, i \in Invoked : Invoke(t, i[1], i[2], i[3])
    \/ \E t \in Threads : ValidateInput(t)
    \/ \E t \in Threads, is_loaded \in BOOLEAN : CheckAvailable(t, is_loaded)
    \/ \E t \in Threads : AfterLookup(t)
    \/ \E t \in Threads : \E resp \in ResponsesTo(t) : GenerateResponse(t, resp)
    \/ \E t \in Threads : ReturnSuccess(t)
    \/ \E t \in Threads : Finish(t)
    \/ \E t \in Threads : Abandon(t)
    \/ \E t \in Threads : Acquire(t)
    \/ \E t \in Threads : GetLookup(t)
    \/ \E t \in Threads : GetRead(t)
    \/ \E t \in Threads : GetWrite(t)
    \/ \E t \in Threads : GetTime(t)
    \/ \E t \in Threads : PutCheck(t)
    \/ \E t \in Threads : Cleanup(t)
    \/ \E t \in Threads : PutStore(t)
    \/ \E t \in Threads : Release(t)

\* ------------------------------------------------- generation arguments
\* GenerationConfig defaults (config.py)
grammar_max_tokens_multiplier == 4
grammar_min_tokens == 100
summary_max_tokens == 200
summary_min_tokens == 100
tone_max_tokens_multiplier == 2
tone_min_tokens == 150

\* a text of n characters
TextOfLen(n) == [i \in 1..n |-> "a"]

\* mutation of max_tokens: the summary's upper limit is not applied
max_tokens_summary_unclamped(kind, text) ==
    CASE kind = "grammar" ->
            Max(grammar_min_tokens, Len(text) * grammar_max_tokens_multiplier)
      [] kind = "summary" -> Max(summary_min_tokens, Len(text))
      [] kind = "tone" ->
            Max(tone_min_tokens, Len(text) * tone_max_tokens_multiplier)

\* the max_tokens argument of generate_response
\*   grammar: max(grammar_min_tokens, len(text) * grammar_max_tokens_multiplier)
\*   summary: min(summary_max_tokens, max(summary_min_tokens, len(text)))
\*   tone:    max(tone_min_tokens, len(text) * tone_max_tokens_multiplier)
max_tokens(kind, text) ==
    CASE kind = "grammar" ->
            Max(grammar_min_tokens, Len(text) * grammar_max_tokens_multiplier)
      [] kind = "summary" ->
            Min(summary_max_tokens, Max(summary_min_tokens, Len(text)))
      [] kind = "tone" ->
            Max(tone_min_tokens, Len(text) * tone_max_tokens_multiplier)

NoRequest == [kind |-> "", len |-> 0, max_tokens |-> 0]

RequestInit == request = NoRequest

\* a processor of the given kind reaches generate_response with a text of n
\* characters (a text it has validated) and builds the arguments
BuildRequest(kind, n) ==
    LET text == TextOfLen(n) IN
    /\ _validate_input(text)
    /\ request' = [kind |-> kind, len |-> Len(text),
                   max_tokens |-> max_tokens(kind, text)]
    /\ UNCHANGED <<clock, lru_vars, svc_vars, svc_op, conc_vars, single_vars,
                   proc, hotkey>>

RequestNext ==
    \E kind \in Kinds, n \in 0..MaxTextLen : BuildRequest(kind, n)

\* the texts and generated texts of the validation: n characters, bare or
\* with a blank on either side
PaddedTexts(max) ==
    {TextOfLen(n) : n \in 0..max} \cup {Wrapped(TextOfLen(n)) : n \in 0..max}

\* A processor of the given kind gets the generated text out for a text it
\* has validated and found uncached: the try body from the provider's return
\* on, and the result returned.  request records the text, what the provider
\* generated and the result.
ValidateResponse(kind, text, out) ==
    LET body == TryBody(kind, text, Response("ok", out, None, <<>>)) IN
    /\ _validate_input(text)
    /\ request' =
          [kind |-> kind, len |-> Len(text), max_tokens |-> max_tokens(kind, text),
           text |-> text, generated |-> out,
           result |-> IF body.status = "ok"
                      THEN SuccessResult(kind, body.out, text, 0, FALSE, formal)
                      ELSE _create_error_result(text, body.error)]
    /\ UNCHANGED <<clock, lru_vars, svc_vars, svc_op, conc_vars, single_vars,
                   proc, hotkey>>

ValidationNext ==
    \E kind \in Kinds, text \in PaddedTexts(MaxInputLen),
       out \in PaddedTexts(MaxOutputLen) : ValidateResponse(kind, text, out)

\* the invocations of the specification with fairness: the tone changer with
\* a text, in the supported tone and in another, and the grammar corrector
\* with a blank text; no caller gives up waiting
InvokedOnce ==
    {<<"tone", <<"a">>, formal>>, <<"tone", <<"a">>, casual>>,
     <<"grammar", <<" ">>, formal>>}

FairInvocationsNext ==
    \/ \E t \in Threads, i \in InvokedOnce : Invoke(t, i[1], i[2], i[3])
    \/ \E t \in Threads : ValidateInput(t)
    \/ \E t \in Threads, is_loaded \in BOOLEAN : CheckAvailable(t, is_loaded)
    \/ \E t \in Threads : AfterLookup(t)
    \/ \E t \in Threads : \E resp \in ResponsesTo(t) : GenerateResponse(t, resp)
    \/ \E t \in Threads : ReturnSuccess(t)
    \/ \E t \in Threads : Finish(t)
    \/ \E t \in Threads : Acquire(t)
    \/ \E t \in Threads : GetLookup(t)
    \/ \E t \in Threads : GetRead(t)
    \/ \E t \in Threads : GetWrite(t)
    \/ \E t \in Threads : GetTime(t)
    \/ \E t \in Threads : PutCheck(t)
    \/ \E t \in Threads : Cleanup(t)
    \/ \E t \in Threads : PutStore(t)
    \/ \E t \in Threads : Release(t)

\* ------------------------------------------------ DefaultHotkeyHandlers
\* The handlers of services/hotkey_service.py over the ClipboardService of
\* services/clipboard_service.py.  hotkey records the last press:
\*   handler   the handler that ran
\*   before    the text the application had selected (or on the current
\*             line) when the key was pressed
\*   text      what copy_current_line() / copy_selection() returned
\*   outcome   "unavailable" (a service is missing), "blank", "raised" (an
\*             exception reached the handler's except), "result"
\*   issued    the ClipboardService actions performed, in order
\*   pasted    the text given to set_clipboard_text, None if none was
\*   after     the text the application has in that place afterwards
\*   n         presses so far
NoPress ==
    [handler |-> "", before |-> <<>>, text |-> <<>>, outcome |-> "",
     issued |-> <<>>, pasted |-> None, after |-> <<>>, n |-> 0]

HotkeyInit == hotkey = NoPress

\* ClipboardService.copy_current_line / copy_selection: the actions issued
CopyActions(by_line) ==
    (IF by_line THEN <<"select_current_line">> ELSE <<>>)
        \o <<"copy_to_clipboard", "get_clipboard_text">>

\* ClipboardService.replace_current_line_with_text /
\* replace_selection_with_text: the actions issued
ReplaceActions(by_line) ==
    (IF by_line THEN <<"select_current_line">> ELSE <<>>)
        \o <<"set_clipboard_text", "paste_from_clipboard">>

\* ClipboardService.get_clipboard_text: the clipboard's text, "" when
\* reading it raised
get_clipboard_text(selected, clip_ok) == IF clip_ok THEN selected ELSE <<>>

\* mutation of WritesBack: the result is written back whatever its success
WritesBack_always(res) == TRUE

\* "if result.success:"
WritesBack(res) == res.success

\* One press: the handler's try body with its early returns and its except.
\* kind is the processor called, by_line tells the line handler from the
\* selection handlers, has_processor / has_clipboard are the truth of the
\* two services, selected is the application's text, clip_ok is false when
\* reading the clipboard raised, raises is true when the processor call
\* raised instead of returning.
Press(name, kind, by_line, has_processor, has_clipboard, selected, clip_ok, raises) ==
    LET text == get_clipboard_text(selected, clip_ok)
        p0 == [NoPress EXCEPT !.handler = name, !.before = selected,
                              !.after = selected, !.n = hotkey.n + 1]
        p1 == [p0 EXCEPT !.text = text, !.issued = CopyActions(by_line)]
    IN
    /\ hotkey.n < MaxPresses
    /\ UNCHANGED <<prev, lru_vars, svc_op, conc_vars, single_vars, proc, request>>
    /\ IF ~has_processor \/ ~has_clipboard
       THEN /\ hotkey' = [p0 EXCEPT !.outcome = "unavailable"]
            /\ UNCHANGED <<clock, cache_service, call, result, calls>>
       ELSE IF strip(text) = <<>>
       THEN /\ hotkey' = [p1 EXCEPT !.outcome = "blank"]
            /\ UNCHANGED <<clock, cache_service, call, result, calls>>
       ELSE IF raises
       THEN /\ hotkey' = [p1 EXCEPT !.outcome = "raised"]
            /\ UNCHANGED <<clock, cache_service, call, result, calls>>
       ELSE /\ \E is_loaded \in BOOLEAN : Process(kind, text, formal, is_loaded)
            /\ hotkey' =
                 IF WritesBack(result')
                 THEN [p1 EXCEPT !.outcome = "result",
                                 !.issued = @ \o ReplaceActions(by_line),
                                 !.pasted = Some(result'.processed_text),
                                 !.after = result'.processed_text]
                 ELSE [p1 EXCEPT !.outcome = "result"]

\* the texts the application may have selected when a key is pressed
Selected == {<<>>, <<" ">>, <<"a">>, <<"A">>, Wrapped(<<"a">>)}

PressInputs == BOOLEAN \X BOOLEAN \X Selected \X BOOLEAN \X BOOLEAN

\* DefaultHotkeyHandlers.grammar_fix_line
grammar_fix_line ==
    \E i \in PressInputs :
        Press("grammar_fix_line", "grammar", TRUE, i[1], i[2], i[3], i[4], i[5])

\* DefaultHotkeyHandlers.grammar_fix_selection
grammar_fix_selection ==
    \E i \in PressInputs :
        Press("grammar_fix_selection", "grammar", FALSE, i[1], i[2], i[3], i[4], i[5])

\* DefaultHotkeyHandlers.summarize
summarize_selection ==
    \E i \in PressInputs :
        Press("summarize", "summary", FALSE, i[1], i[2], i[3], i[4], i[5])

\* DefaultHotkeyHandlers.change_tone
change_tone_formal ==
    \E i \in PressInputs :
        Press("change_tone", "tone", FALSE, i[1], i[2], i[3], i[4], i[5])

HotkeysNext ==
    \/ grammar_fix_line
    \/ grammar_fix_selection
    \/ summarize_selection
    \/ change_tone_formal

\* the state outside the older specifications' scope
ExtInit ==
    /\ SingletonInit
    /\ ProcInit
    /\ RequestInit
    /\ HotkeyInit

Init ==
    /\ clock = 0
    /\ LruInit
    /\ SvcInit
    /\ svc_op = NoSvcOp
    /\ ConcInit
    /\ ExtInit

\* the processors over the shared CacheService; the stand-alone cache of
\* SpecLRU is held at one configuration and never touched
ProcessorsInit ==
    /\ Init
    /\ lru = LRUCache(1, 1)

Spec == ProcessorsInit /\ [][Next]_vars

\* the LRUCache class on its own, in every configuration
SpecLRU == Init /\ [][LruNext]_vars

\* the CacheService called directly, in two configurations
KeysInit ==
    /\ clock = 0
    /\ lru = LRUCache(1, 1) /\ lru_op = NoOp
    /\ \E cfg \in SvcConfigs : cache_service = CacheServiceOf(cfg[1], cfg[2])
    /\ call = IdleCall /\ result = NoResult /\ prev = NoPrev /\ calls = 0
    /\ svc_op = NoSvcOp
    /\ ConcInit
    /\ ExtInit

SpecKeys == KeysInit /\ [][KeysNext]_vars

\* the validation of the generated text, for longer texts
SpecValidation == ProcessorsInit /\ [][ValidationNext]_vars

\* a processor called again and again with differently written texts
SpecVariants == ProcessorsInit /\ [][VariantsNext]_vars

\* the processors over caches that are also written directly
SpecSeeded == ProcessorsInit /\ [][SeededNext]_vars

\* the tone cache called with texts and tones that hold an underscore
SpecToneKeys == KeysInit /\ [][ToneKeysNext]_vars

\* threads calling the methods of one LRUCache
SpecThreads == ProcessorsInit /\ [][ThreadsNext]_vars

\* threads calling the processors' and the service's cache operations; a
\* thread that can take a step eventually takes one
LocksInit ==
    /\ clock = 0
    /\ lru = LRUCache(1, 1) /\ lru_op = NoOp
    /\ \E max_cache_size \in {1, MaxCacheSize} :
          cache_service = CacheServiceOf(max_cache_size, CleanupBatch)
    /\ call = IdleCall /\ result = NoResult /\ prev = NoPrev /\ calls = 0
    /\ svc_op = NoSvcOp
    /\ ConcInit
    /\ ExtInit

SpecLocks ==
    /\ LocksInit
    /\ [][LocksNext]_vars
    /\ \A t \in Threads : WF_vars(LockedStep(t))

\* threads asking for the CacheService singleton
SpecSingleton == ProcessorsInit /\ [][SingletonNext]_vars

\* the generation arguments for every kind and text length
SpecRequests == ProcessorsInit /\ [][RequestNext]_vars

\* threads running processor invocations over the shared CacheService
SpecInvocations == ProcessorsInit /\ [][InvocationsNext]_vars

\* the same, where a thread that can take a step of its invocation eventually
\* takes one: the caller's thread is scheduled, the provider's call returns,
\* a free lock is taken
SpecInvocationsFair ==
    /\ ProcessorsInit
    /\ [][FairInvocationsNext]_vars
    /\ \A t \in Threads : WF_vars(InvocationStep(t))

\* the hotkey handlers over the processors
SpecHotkeys == ProcessorsInit /\ [][HotkeysNext]_vars

\* ===================================================================== claims

\* ---- C1 (as stated): after each put, size() <= max_size, the only exception
\* being a cache with max_size < cleanup_batch_size while its map holds fewer
\* than cleanup_batch_size entries (read either way: before or after the put).
C1_AsStated ==
    lru_op.op = "put" =>
        \/ size(lru) <= lru.max_size
        \/ /\ lru.max_size < lru.cleanup_batch_size
           /\ \/ size(lru) < lru.cleanup_batch_size
              \/ lru_op.size_before < lru.cleanup_batch_size

\* ---- C1 (amended): after each put, size() <= max_size, except that a cache
\* with max_size < cleanup_batch_size may hold up to and including
\* cleanup_batch_size entries.
C1_SizeBound ==
    lru_op.op = "put" =>
        \/ size(lru) <= lru.max_size
        \/ /\ lru.max_size < lru.cleanup_batch_size
           /\ size(lru) <= lru.cleanup_batch_size

\* a put has returned with the map above max_size, at cleanup_batch_size
C1_Witness ==
    /\ lru_op.op = "put"
    /\ lru.max_size >= 1
    /\ size(lru) > lru.max_size
    /\ size(lru) = lru.cleanup_batch_size

\* ---- C2: when the cleanup inside put removes entries (size >= max_size and
\* size >= cleanup_batch_size), exactly cleanup_batch_size keys are removed, no
\* removed entry was accessed later than a surviving one, and the map after
\* the put holds the survivors plus the key just put.
C2_EvictsOldestBatch ==
    [][ (/\ lru_op'.op = "put"
         /\ size(lru) >= lru.max_size
         /\ size(lru) >= lru.cleanup_batch_size)
        =>
        LET d == lru._cache
            R == lru_op'.removed
        IN  /\ R \subseteq KeysOf(d)
            /\ Cardinality(R) = lru.cleanup_batch_size
            /\ \A i, j \in 1..Len(d) :
                 (d[i].key \in R /\ d[j].key \notin R)
                    => d[i].last_accessed <= d[j].last_accessed
            /\ KeysOf(lru'._cache) = (KeysOf(d) \ R) \cup {lru_op'.key}
      ]_vars

\* a cleanup has removed a batch and left a strictly newer entry behind
C2_Witness ==
    /\ lru_op.op = "put"
    /\ lru_op.removed # {}
    /\ size(lru) >= 2
    /\ \E i \in 1..Len(lru._cache) :
          /\ lru._cache[i].key # lru_op.key
          /\ lru._cache[i].access_count > 0

\* ---------------------------------------------------- reading a call's outcome
\* the invocation returned a TextProcessingResult (no exception left it)
IsResult(r) == "success" \in DOMAIN r
Succeeded(r) == IsResult(r) /\ r.success
Failed(r) == IsResult(r) /\ ~r.success
FromCache(r) == r.metadata # None /\ r.metadata[1].from_cache
HasMessage(r) == r.error_message # None /\ r.error_message[1] # <<>>
\* the text the provider generated in this invocation
Generated == call.response[1].text
\* the invocation went through inference and produced its success
FreshSuccess(cl, r) ==
    /\ cl.is_loaded /\ cl.stored = None /\ cl.generate_calls = 1
    /\ cl.response[1].kind = "ok"
    /\ Succeeded(r)

C4_AsStated ==
    /\ (~Idle /\ FreshSuccess(call, result)) =>
          /\ ~FromCache(result)
          /\ result.processed_text = Generated
    /\ (prev # NoPrev /\ FreshSuccess(prev.call, prev.result) /\ call.is_loaded) =>
          /\ Succeeded(result)
          /\ result.processed_text = prev.result.processed_text
          /\ FromCache(result)
          /\ result.processing_time = 0
          /\ prev.call.generate_calls + call.generate_calls = 1

\* ---- C4 (amended): the first call returns the provider output with its
\* surrounding whitespace removed; the rest as stated.
C4_SecondCallFromCache ==
    /\ (~Idle /\ FreshSuccess(call, result)) =>
          /\ ~FromCache(result)
          /\ result.processed_text = strip(Generated)
    /\ (prev # NoPrev /\ FreshSuccess(prev.call, prev.result) /\ call.is_loaded) =>
          /\ Succeeded(result)
          /\ result.processed_text = prev.result.processed_text
          /\ FromCache(result)
          /\ result.processing_time = 0
          /\ prev.call.generate_calls + call.generate_calls = 1

\* the repeated call has returned, after a first one whose output was wrapped
\* in whitespace
C4_Witness ==
    /\ prev # NoPrev /\ FreshSuccess(prev.call, prev.result) /\ call.is_loaded
    /\ prev.call.response[1].text # strip(prev.call.response[1].text)
    /\ FromCache(result)

\* ---- C5: when the inference call fails - generate_response raises, returns
\* success == false, or returns a malformed structure - the processor returns a
\* failed result carrying the error message; no exception leaves it.
C5_InferenceFailureIsAResult ==
    (~Idle /\ call.generate_calls = 1 /\ call.response[1].kind # "ok") =>
        /\ Failed(result)
        /\ call.response[1].kind = "raise" =>
              result.error_message = Some(call.response[1].msg)
        /\ call.response[1].kind = "fail" =>
              result.error_message = call.response[1].error
        /\ call.response[1].kind \in {"fail_nokey", "malformed"} =>
              HasMessage(result)

\* generate_response raised and the processor returned a failed result
C5_Witness ==
    /\ ~Idle /\ call.generate_calls = 1
    /\ call.response[1].kind = "raise"
    /\ call.response[1].msg # <<>>
    /\ Failed(result)

\* ---- C6: every failed result has success == false and a present, non-empty
\* error_message, also when the provider returns success == false with its
\* error absent or null.
C6_AsStated ==
    (~Idle /\ Failed(result)) => HasMessage(result)

\* ---- C7: every failed result carries the caller's input unchanged as
\* original_text and as processed_text.
C7_FailureKeepsInput ==
    (~Idle /\ Failed(result)) =>
        /\ result.original_text = call.text
        /\ result.processed_text = call.text

\* a failure after inference, on a text with surrounding whitespace
C7_Witness ==
    /\ ~Idle /\ Failed(result)
    /\ call.generate_calls = 1
    /\ call.text # strip(call.text)

\* ---- C8: fix_grammar and change_tone('formal'), provider loaded, cache miss:
\* a generated text that is empty after trimming, or shorter than 30% of the
\* input, gives a failure whose processed_text is the input, and the caches
\* are left as they were.
C8_DegenerateOutputRejected ==
    [][ (/\ calls' = calls + 1
         /\ call'.op \in {"grammar", "tone"}
         /\ call'.op = "tone" => call'.tone = formal
         /\ call'.is_loaded /\ call'.stored = None
         /\ call'.generate_calls = 1
         /\ call'.response[1].kind = "ok"
         /\ LET out == call'.response[1].text IN
              \/ strip(out) = <<>>
              \/ 10 * Len(out) < 3 * Len(call'.text)
              \/ 10 * Len(strip(out)) < 3 * Len(call'.text))
        =>
        /\ Failed(result')
        /\ result'.processed_text = call'.text
        /\ cache_service' = cache_service
      ]_vars

\* a non-empty generated text under 30% of the input was rejected
C8_Witness ==
    /\ ~Idle /\ call.op \in {"grammar", "tone"} /\ call.generate_calls = 1
    /\ call.response[1].kind = "ok"
    /\ strip(Generated) # <<>>
    /\ 10 * Len(strip(Generated)) < 3 * Len(call.text)
    /\ Failed(result)

\* ---- C9 (as stated): change_tone fails with UnsupportedTone, and never
\* succeeds, for every target other than exactly "formal" and every valid text
\* (taken with the provider loaded, the reading most favourable to the claim).
C9_AsStated ==
    (/\ ~Idle /\ call.op = "tone" /\ call.tone # formal
     /\ _validate_input(call.text) /\ call.is_loaded) =>
        /\ Failed(result)
        /\ result.error_message = Some(UnsupportedToneMsg(call.tone))

\* ---- C9 (amended): with a loaded provider and no value cached under the
\* call's key, change_tone fails with UnsupportedTone, without calling the
\* provider, for every target whose lower-cased form is not "formal".
C9_UnsupportedToneRejected ==
    (/\ ~Idle /\ call.op = "tone" /\ _validate_input(call.text)
     /\ lower(call.tone) # formal
     /\ call.is_loaded /\ call.stored = None) =>
        /\ Failed(result)
        /\ result.error_message = Some(UnsupportedToneMsg(call.tone))
        /\ call.generate_calls = 0

\* an unsupported tone was rejected while the same text is cached as formal
C9_Witness ==
    /\ ~Idle /\ call.op = "tone" /\ lower(call.tone) # formal
    /\ call.is_loaded /\ Failed(result)
    /\ \E t \in {formal, Formal} :
          CacheKey("tone", call.text, t) \in KeysOf(cache_service.tone._cache)

C11_GetTouchesOnlyItsEntry ==
    [][ lru_op'.op = "get" =>
        LET d == lru._cache
            i == IndexOf(d, lru_op'.key)
        IN  IF i # 0
            THEN /\ lru_op'.ret = Some(d[i].value)
                 /\ lru' = [lru EXCEPT
                        !._cache[i].access_count = d[i].access_count + 1,
                        !._cache[i].last_accessed = clock']
                 /\ clock' >= clock
            ELSE /\ lru_op'.ret = None
                 /\ lru' = lru
      ]_vars

\* a get has hit one of two entries, at a time later than the entry's creation
C11_Witness ==
    /\ lru_op.op = "get" /\ lru_op.present
    /\ size(lru) >= 2
    /\ LET e == lru._cache[IndexOf(lru._cache, lru_op.key)]
       IN  e.access_count = 1 /\ e.last_accessed > e.created_at

\* ---- C12: LRUCache.put on a key already present replaces the entry: a get
\* of the key then returns the new value, access_count is 0, created_at and
\* last_accessed are times read during the put, and no entry of the map has a
\* later last_accessed.
C12_PutOverwritesAndResets ==
    [][ (lru_op'.op = "put" /\ contains(lru, lru_op'.key)) =>
        LET d == lru'._cache
            i == IndexOf(d, lru_op'.key)
        IN  /\ i # 0
            /\ Cardinality({j \in 1..Len(d) : d[j].key = lru_op'.key}) = 1
            /\ get(lru', lru_op'.key, clock').ret = Some(lru_op'.value)
            /\ d[i].access_count = 0
            /\ clock <= d[i].created_at
            /\ d[i].created_at <= d[i].last_accessed
            /\ d[i].last_accessed = clock'
            /\ \A j \in 1..Len(d) : d[j].last_accessed <= d[i].last_accessed
      ]_vars

\* a key that had been read was put again with another value, next to an
\* older entry
C12_Witness ==
    /\ lru_op.op = "put" /\ lru_op.present
    /\ size(lru) >= 2
    /\ LET i == IndexOf(lru._cache, lru_op.key)
       IN  /\ lru._cache[i].value = lru_op.value
           /\ \E j \in 1..Len(lru._cache) :
                 lru._cache[j].last_accessed < lru._cache[i].last_accessed

\* ---- C17: a successful, non-cached invocation stores the validated output
\* in the cache of its own operation kind, under the key derived from the
\* original input text (normalized; with the tone appended for change_tone),
\* before it returns; a lookup for that input then returns that output.  The
\* caches of the other kinds are not touched.
C17_SuccessIsCachedUnderInput ==
    [][ (calls' = calls + 1 /\ FreshSuccess(call', result')) =>
        LET kind == call'.op
            key == CacheKey(kind, call'.text, call'.tone)
            d == cache_service'[kind]._cache
            i == IndexOf(d, key)
        IN  /\ i # 0
            /\ d[i].value = result'.processed_text
            /\ d[i].value = strip(call'.response[1].text)
            /\ d[i].access_count = 0
            /\ get_cached(cache_service', kind, call'.text, call'.tone, clock').ret
                  = Some(result'.processed_text)
            /\ \A k \in Kinds \ {kind} : cache_service'[k] = cache_service[k]
      ]_vars

\* a success was stored under a key that is neither the input as written nor
\* the generated text
C17_Witness ==
    /\ ~Idle /\ FreshSuccess(call, result)
    /\ call.text # _normalize_key(call.text)
    /\ CacheKey(call.op, call.text, call.tone)
          \in KeysOf(cache_service[call.op]._cache)
    /\ CacheKey(call.op, result.processed_text, call.tone)
          \notin KeysOf(cache_service[call.op]._cache)

\* ---- C18: an input that is empty or only whitespace fails with InvalidInput
\* as the first step of every processor: is_loaded and generate_response are
\* not called, no cache is read or written, whatever the provider's state and
\* the caches hold.
C18_BlankInputFailsFirst ==
    [][ (calls' = calls + 1 /\ strip(call'.text) = <<>>) =>
        /\ Failed(result')
        /\ result'.error_message = Some(InvalidInputMsg)
        /\ call'.is_loaded_calls = 0
        /\ call'.cache_gets = 0
        /\ call'.generate_calls = 0
        /\ cache_service' = cache_service
      ]_vars

\* a whitespace-only text was refused with the provider loaded and the cache
\* of that processor holding entries
C18_Witness ==
    /\ ~Idle /\ call.text # <<>> /\ strip(call.text) = <<>>
    /\ call.is_loaded
    /\ cache_service[call.op]._cache # <<>>
    /\ result.error_message = Some(InvalidInputMsg)

\* ---- C19: with a valid input and a provider that reports not-loaded, every
\* processor fails with Unavailable before the cache lookup: no cached value
\* is returned even if one exists, generate_response is not called, and no
\* cache entry changes.
C19_UnavailableBeforeLookup ==
    [][ (calls' = calls + 1 /\ _validate_input(call'.text) /\ ~call'.is_loaded) =>
        /\ Failed(result')
        /\ result'.error_message = Some(UnavailableMsg(call'.op))
        /\ call'.is_loaded_calls = 1
        /\ call'.cache_gets = 0
        /\ call'.generate_calls = 0
        /\ cache_service' = cache_service
      ]_vars

\* a not-loaded provider was met while the key of the call was cached
\* and had not been read yet
C19_Witness ==
    /\ ~Idle /\ ~call.is_loaded /\ _validate_input(call.text)
    /\ call.stored # None
    /\ Failed(result)
    /\ LET d == cache_service[call.op]._cache
           i == IndexOf(d, CacheKey(call.op, call.text, call.tone))
       IN  i # 0 /\ d[i].access_count = 0

\* ---- C20: summarize with a loaded provider and a cache miss: every generated
\* text that is non-empty after trimming, whatever its length relative to the
\* input, gives success and is cached; only a text that is empty after
\* trimming fails.
C20_SummaryHasNoLengthGuard ==
    (/\ ~Idle /\ call.op = "summary" /\ call.is_loaded /\ call.stored = None
     /\ call.generate_calls = 1 /\ call.response[1].kind = "ok") =>
        IF strip(Generated) # <<>>
        THEN /\ Succeeded(result)
             /\ result.processed_text = strip(Generated)
             /\ ~FromCache(result)
             /\ LET d == cache_service.summary._cache
                    i == IndexOf(d, _normalize_key(call.text))
                IN  i # 0 /\ d[i].value = strip(Generated)
        ELSE /\ Failed(result)
             /\ result.error_message = Some(InvalidResponseMsg("summary"))

\* a summary shorter than 30% of its input was accepted
C20_Witness ==
    /\ ~Idle /\ call.op = "summary" /\ call.generate_calls = 1
    /\ call.response[1].kind = "ok"
    /\ 10 * Len(strip(Generated)) < 3 * Len(call.text)
    /\ Succeeded(result)
    /\ prev = NoPrev

\* ---- C15: key normalization (trim, then lower-case) is idempotent,
\* normalize(normalize(s)) = normalize(s); and right after a value v was put
\* under normalize(s), a get of normalize(s) returns v - on the cache itself,
\* and through the service's lookup given the normalized text.
C15_NormalizeIdempotent ==
    /\ svc_op.op = "normalize" =>
          /\ svc_op.ret = Some(lower(strip(svc_op.text)))
          /\ _normalize_key(svc_op.ret[1]) = svc_op.ret[1]
    /\ svc_op.op = "cache" =>
          LET n == _normalize_key(svc_op.text) IN
          /\ svc_op.kind # "tone" =>
                get(cache_service[svc_op.kind], n, clock).ret = Some(svc_op.value)
          /\ get_cached(cache_service, svc_op.kind, n, svc_op.tone, clock).ret
                = Some(svc_op.value)

\* a string with whitespace on both sides and an upper-case letter was
\* normalized
C15_Witness ==
    /\ svc_op.op = "normalize"
    /\ Len(svc_op.text) = 3
    /\ Head(svc_op.text) \in Whitespace
    /\ svc_op.text[3] \in Whitespace
    /\ svc_op.ret = Some(<<"a">>)
    /\ svc_op.text[2] = "A"

\* ---- C16: in the tone cache the same text under two different target tones
\* has two keys: when cache_tone_change(t, v2, tone2) evicts nothing, the value
\* v1 cached for t under any other tone1 is still what get_tone_change(t, tone1)
\* returns, and get_tone_change(t, tone2) returns v2.
C16_TonesDoNotCollide ==
    [][ (/\ svc_op'.op = "cache" /\ svc_op'.kind = "tone"
         /\ svc_op'.removed = {})
        =>
        /\ get_cached(cache_service', "tone", svc_op'.text, svc_op'.tone, clock').ret
              = Some(svc_op'.value)
        /\ \A tone1 \in KeyTones \ {svc_op'.tone} :
              \A text1 \in KeyTexts :
                 _normalize_key(text1) = _normalize_key(svc_op'.text) =>
                    get_cached(cache_service', "tone", text1, tone1, clock').ret
                      = get_cached(cache_service, "tone", text1, tone1, clock).ret
      ]_vars

\* one text is cached under two tones with two different values
C16_Witness ==
    /\ svc_op.op = "cache" /\ svc_op.kind = "tone" /\ svc_op.removed = {}
    /\ \E tone1 \in KeyTones \ {svc_op.tone} :
          LET r1 == get_cached(cache_service, "tone", svc_op.text, tone1, clock).ret
              r2 == get_cached(cache_service, "tone", svc_op.text, svc_op.tone, clock).ret
          IN  r1 # None /\ r2 # None /\ r1 # r2

\* what a method does when nothing else runs: the cache it leaves, given the
\* cache it found, and what it returns
SeqEffect(r) ==
    CASE r.op = "get" -> get(r.snap[1], r.key, r.t2).self
      [] r.op = "put" -> put(r.snap[1], r.key, r.value, r.t1, r.t2)
      [] r.op = "clear" -> clear(r.snap[1])
      [] OTHER -> r.snap[1]

SeqReturn(r) ==
    CASE r.op = "get" -> get(r.snap[1], r.key, r.t2).ret
      [] r.op = "contains" -> Some(contains(r.snap[1], r.key))
      [] r.op = "size" -> Some(size(r.snap[1]))
      [] OTHER -> None

\* ---- C13: under any interleaving of threads calling get, put, contains,
\* size and clear on one LRUCache every method takes effect atomically - when
\* it is about to return, the cache is what the method run alone makes of the
\* cache it found on entry, and so is its return value - and no update of
\* access_count is lost: every entry's access_count is the number of gets
\* that stored it since the entry was made.
C13_MethodsAreAtomic ==
    /\ \A t \in Threads :
          thr[t].pc = "release" =>
             /\ lru = SeqEffect(thr[t])
             /\ thr[t].ret = SeqReturn(thr[t])
    /\ \A i \in 1..Len(lru._cache) :
          lru._cache[i].access_count = HitsOf(hits, <<"lru", lru._cache[i].key>>)
    /\ \A t, u \in Threads :
          (t # u /\ thr[t].pc \notin {"idle", "acquire"}) =>
              thr[u].pc \in {"idle", "acquire"}

\* a get that had to wait for the lock has counted the second access of an
\* entry
C13_Witness ==
    \E t \in Threads :
        /\ thr[t].pc = "release" /\ thr[t].op = "get" /\ thr[t].waited
        /\ thr[t].ret # None
        /\ \E i \in 1..Len(lru._cache) :
              lru._cache[i].key = thr[t].key /\ lru._cache[i].access_count = 2

\* the locks a thread holds
HeldBy(t) == {c \in CacheNames : locks[c] = t}

\* ---- C14: no cache operation takes a lock while it holds one - a thread
\* holds at most one lock, none while it waits for one, and put runs _cleanup
\* holding the lock it took - so under any interleaving of processor and
\* CacheService calls every lock acquisition eventually succeeds and every
\* cache operation ends with its lock released.
C14_LocksAreNeverNested ==
    /\ [](\A t \in Threads :
            /\ Cardinality(HeldBy(t)) <= 1
            /\ thr[t].pc \in {"idle", "acquire"} => HeldBy(t) = {}
            /\ thr[t].pc \notin {"idle", "acquire"} => HeldBy(t) = {thr[t].cache})
    /\ \A t \in Threads :
          /\ (thr[t].pc = "acquire") ~> (thr[t].pc # "acquire" /\ HeldBy(t) # {})
          /\ (thr[t].pc # "idle") ~> (thr[t].pc = "idle" /\ HeldBy(t) = {})

\* a put has run _cleanup under its lock while another thread waits for
\* that lock
C14_Witness ==
    \E t, u \in Threads :
        /\ thr[t].pc = "put_store" /\ PutAtCapacity(thr[t].snap[1])
        /\ locks[thr[t].cache] = t
        /\ thr[u].pc = "acquire" /\ thr[u].cache = thr[t].cache

\* C21: at most one CacheService is ever constructed, and every call of
\* get_cache_service(), first calls made concurrently by several threads
\* included, returns the same object.
C21_AsStated ==
    /\ instances <= 1
    /\ \A t, u \in Threads : \A i \in getter[t].got, j \in getter[u].got : i = j

\* the positions of a cache's map that hold key
EntriesFor(c, key) == {i \in DOMAIN c._cache : c._cache[i].key = key}

\* thread t executes "self._cache[key] = CacheEntry(value)" in this step
StoresNow(t) == thr[t].pc = "put_store" /\ thr'[t].pc = "release"

\* t and u have both returned a success made by their own inference for the
\* same kind and the same key: both lookups missed, both called the provider
RacedOn(t, u) ==
    /\ t # u
    /\ proc[t].pc = "done" /\ proc[u].pc = "done"
    /\ Succeeded(proc[t].result) /\ ~FromCache(proc[t].result)
    /\ Succeeded(proc[u].result) /\ ~FromCache(proc[u].result)
    /\ proc[t].generate_calls = 1 /\ proc[u].generate_calls = 1
    /\ proc[t].kind = proc[u].kind
    /\ CacheKey(proc[t].kind, proc[t].text, proc[t].tone)
         = CacheKey(proc[u].kind, proc[u].text, proc[u].tone)

\* the cache of t's kind holds exactly one entry under t's key, and its value
\* is the text t returned or the text u returned
OneOfTheirs(t, u) ==
    LET c == cache_service[proc[t].kind]
        E == EntriesFor(c, CacheKey(proc[t].kind, proc[t].text, proc[t].tone))
    IN  /\ Cardinality(E) = 1
        /\ \A i \in E : c._cache[i].value \in
                {proc[t].result.processed_text, proc[u].result.processed_text}

\* C22: two threads that process the same uncached input at once may both
\* miss the cache and both call the provider; each returns a success with its
\* own output, and once both have returned the cache holds exactly one entry
\* under the key, with the output of the put that ran last: every store
\* leaves its own value as the only entry under its key, a value under a key
\* changes in no other step, and no entry is missing or mixed at the end.
C22_LastWriterWins ==
    [][ /\ \A t \in Threads : StoresNow(t) =>
              LET c == cache_service'[thr[t].cache]
                  E == EntriesFor(c, thr[t].key)
              IN  /\ Cardinality(E) = 1
                  /\ \A i \in E : c._cache[i].value = thr[t].value
        /\ \A k \in Kinds : \A i \in DOMAIN cache_service[k]._cache :
              LET e == cache_service[k]._cache[i]
                  j == IndexOf(cache_service'[k]._cache, e.key)
              IN  (j # 0 /\ cache_service'[k]._cache[j].value # e.value)
                    => \E t \in Threads :
                          StoresNow(t) /\ thr[t].cache = k /\ thr[t].key = e.key
        /\ \A t, u \in Threads :
              RacedOn(t, u)' =>
                 /\ OneOfTheirs(t, u)'
                 /\ proc'[t].result.processed_text = GeneratedBy(t)
                 /\ proc'[u].result.processed_text = GeneratedBy(u)
      ]_vars

\* both threads have returned their own text for the same key, and the cache
\* holds the text of t1, whose put came second
C22_Witness ==
    /\ RacedOn("t1", "t2")
    /\ \E i \in DOMAIN cache_service["tone"]._cache :
          cache_service["tone"]._cache[i].value = GeneratedBy("t1")
    /\ thr["t1"].t2 > thr["t2"].t2

\* C23: an invocation the caller has abandoned, by a timeout that expired
\* while the inference was in flight, never writes a cache entry for its
\* outcome, even when the inference completes later with a good output.
C23_AsStated ==
    \A t \in Threads :
        proc[t].abandoned =>
            LET c == cache_service[proc[t].kind]
                key == CacheKey(proc[t].kind, proc[t].text, proc[t].tone)
            IN  \A i \in EntriesFor(c, key) : c._cache[i].value # GeneratedBy(t)

\* C24: with the default configuration the provider is passed
\* max_tokens = max(100, 4 * len) for grammar, min(200, max(100, len)) for
\* summary and max(150, 2 * len) for tone, whatever the length of the text;
\* so the summary's max_tokens lies in 100..200, the grammar's is at least 100
\* and the tone's at least 150.
C24_MaxTokens ==
    request # NoRequest =>
        LET n == request.len
            m == request.max_tokens
        IN  /\ request.kind = "grammar" =>
                /\ m = (IF 4 * n > 100 THEN 4 * n ELSE 100)
                /\ m >= 100
            /\ request.kind = "summary" =>
                /\ m = (IF n < 100 THEN 100 ELSE IF n > 200 THEN 200 ELSE n)
                /\ m \in 100..200
            /\ request.kind = "tone" =>
                /\ m = (IF 2 * n > 150 THEN 2 * n ELSE 150)
                /\ m >= 150

\* a summary of a text longer than 200 characters is asked for
C24_Witness ==
    /\ request.kind = "summary"
    /\ request.len > 200
    /\ request.max_tokens = 200

\* the service's caches are built for max_cache_size m and
\* cleanup_batch_size b
BuiltFor(svc, m, b) ==
    /\ svc.grammar.max_size = m
    /\ \E h \in 0..m :
          /\ 2 * h <= m /\ m <= 2 * h + 1
          /\ svc.summary.max_size = h
          /\ svc.tone.max_size = h
    /\ \A k \in Kinds : svc[k].cleanup_batch_size = b

\* C25: the service has three caches with max sizes max_cache_size (grammar)
\* and floor(max_cache_size / 2) (summary, tone) and one cleanup_batch_size;
\* get_cache_stats() reports the current size of each and these maxima, and
\* changes no cache.
C25_StatsReportSizesAndMaxima ==
    [][ \E cfg \in SvcConfigs :
          /\ BuiltFor(cache_service, cfg[1], cfg[2])
          /\ (svc_op'.op = "stats" /\ svc_op'.n = svc_op.n + 1) =>
                /\ cache_service' = cache_service
                /\ svc_op'.ret = Some(
                     [grammar_cache_size |-> Len(cache_service.grammar._cache),
                      summary_cache_size |-> Len(cache_service.summary._cache),
                      tone_cache_size |-> Len(cache_service.tone._cache),
                      grammar_cache_max |-> cfg[1],
                      summary_cache_max |-> cache_service.summary.max_size,
                      tone_cache_max |-> cache_service.tone.max_size])
      ]_vars

\* get_cache_stats() has reported one grammar entry and no others, in a
\* service whose max_cache_size is odd
C25_Witness ==
    /\ svc_op.op = "stats"
    /\ svc_op.ret[1].grammar_cache_size = 1
    /\ svc_op.ret[1].tone_cache_size = 0
    /\ svc_op.ret[1].grammar_cache_max = 2 * svc_op.ret[1].summary_cache_max + 1

\* C26: in a cache with max_size < cleanup_batch_size the cleanup is skipped
\* while the map holds fewer than cleanup_batch_size entries, so the map grows
\* past max_size but never past cleanup_batch_size: a put that finds fewer
\* entries removes nothing, and the put that finds exactly cleanup_batch_size
\* entries evicts them all and leaves one.
C26_SmallCacheFillsToBatch ==
    lru.max_size < lru.cleanup_batch_size =>
        /\ size(lru) <= lru.cleanup_batch_size
        /\ lru_op.op = "put" =>
            /\ lru_op.size_before < lru.cleanup_batch_size =>
                /\ lru_op.removed = {}
                /\ size(lru) = lru_op.size_before + (IF lru_op.present THEN 0 ELSE 1)
            /\ lru_op.size_before = lru.cleanup_batch_size =>
                /\ Cardinality(lru_op.removed) = lru.cleanup_batch_size
                /\ size(lru) = 1

\* a put has found a map two entries above max_size, at cleanup_batch_size,
\* and emptied it
C26_Witness ==
    /\ lru_op.op = "put"
    /\ lru.max_size < lru.cleanup_batch_size
    /\ lru_op.size_before = lru.max_size + 2
    /\ lru_op.size_before = lru.cleanup_batch_size
    /\ size(lru) = 1

\* C27: a get_<op> or cache_<op> call of one kind reads and writes the cache
\* of that kind only: the other two caches stay as they are, entry for entry,
\* and what a lookup returns is a value of its own cache, nothing when that
\* cache is empty, whatever the other caches hold for the text.
C27_OwnCacheOnly ==
    [][ (svc_op'.n = svc_op.n + 1 /\ svc_op'.op \in {"get", "cache"}) =>
          LET k == svc_op'.kind
              own == cache_service[k]._cache
          IN  /\ \A j \in Kinds \ {k} : cache_service'[j] = cache_service[j]
              /\ svc_op'.op = "cache" =>
                    \E i \in DOMAIN cache_service'[k]._cache :
                        cache_service'[k]._cache[i].value = svc_op'.value
              /\ svc_op'.op = "get" =>
                    \/ svc_op'.ret = None
                    \/ \E i \in DOMAIN own : svc_op'.ret = Some(own[i].value)
      ]_vars

\* a summary lookup has missed for a text whose grammar correction is cached
C27_Witness ==
    /\ svc_op.op = "get"
    /\ svc_op.kind = "summary"
    /\ svc_op.ret = None
    /\ contains(cache_service.grammar, _normalize_key(svc_op.text))
    /\ cache_service.summary._cache = <<>>

\* the place of a statement in the pass
Rank(pc) ==
    CASE pc = "idle" -> 0
      [] pc = "validate" -> 1
      [] pc = "available" -> 2
      [] pc = "lookup" -> 3
      [] pc = "generate" -> 4
      [] pc = "store" -> 5
      [] pc = "done" -> 6

\* C28: an invocation is one pass validate -> availability -> cache lookup ->
\* inference -> validation of the response -> cache store -> return, in which
\* no step comes twice: generate_response is called at most once and the cache
\* written at most once, an invocation whose provider call returns ends with
\* one result, which stays what it is, and a success that was produced by
\* inference has from_cache False.
C28_LinearPass ==
    /\ [](\A t \in Threads :
            LET r == proc[t] IN
            /\ r.generate_calls <= 1
            /\ r.cache_puts <= 1
            /\ r.cache_puts = 1 => r.generate_calls = 1
            /\ (r.pc = "done") <=> IsResult(r.result)
            /\ (r.pc = "done" /\ Succeeded(r.result)) =>
                  (FromCache(r.result) <=> r.generate_calls = 0))
    /\ [][\A t \in Threads :
            \/ proc'[t] = proc[t]
            \/ Rank(proc'[t].pc) > Rank(proc[t].pc)
            \/ proc[t].pc = "done" /\ proc'[t].pc = "idle"
         ]_vars
    /\ \A t \in Threads : (proc[t].pc = "generate") ~> (proc[t].pc = "done")

\* an invocation has gone through every step: it missed the cache, called
\* the provider once, stored once and returned a success
C28_Witness ==
    \E t \in Threads :
        /\ proc[t].pc = "done"
        /\ Succeeded(proc[t].result)
        /\ ~FromCache(proc[t].result)
        /\ proc[t].generate_calls = 1
        /\ proc[t].cache_puts = 1
        /\ contains(cache_service[proc[t].kind],
                    CacheKey(proc[t].kind, proc[t].text, proc[t].tone))

\* thread t executes "self._cache.clear()" in this step
ClearsNow(t) == thr[t].pc = "clear" /\ thr'[t].pc = "release"

\* thread t returns from clear_all_caches in this step
ReturnsFromClearAll(t) ==
    /\ thr[t].call = "clear"
    /\ thr[t].pc = "release" /\ thr'[t].pc = "idle"

\* no other thread than t has called a processor
NoPutBeside(t) ==
    \A u \in Threads \ {t} :
        thr[u].n = 0 \/ (thr[u].n = 1 /\ thr[u].call # "process")

\* C29: clear_all_caches() empties the three caches, one after the other and
\* each on its own: a clear empties its cache and leaves the other two alone,
\* an empty cache gets an entry only by a put, a lookup in an empty cache
\* misses, and when the call returns and no other thread has put, all three
\* sizes are 0.
C29_ClearAllEmptiesAll ==
    [][ /\ \A t \in Threads : ClearsNow(t) =>
              /\ cache_service'[thr[t].cache]._cache = <<>>
              /\ \A k \in Kinds \ {thr[t].cache} :
                    cache_service'[k] = cache_service[k]
        /\ \A k \in Kinds :
              (cache_service[k]._cache = <<>> /\ cache_service'[k]._cache # <<>>)
                 => \E u \in Threads : StoresNow(u) /\ thr[u].cache = k
        /\ \A u \in Threads :
              (/\ thr[u].pc = "get_lookup" /\ thr'[u].pc # "get_lookup"
               /\ cache_service[thr[u].cache]._cache = <<>>)
                 => thr'[u].ret = None /\ thr'[u].pc = "release"
        /\ \A t \in Threads :
              (ReturnsFromClearAll(t) /\ NoPutBeside(t)) =>
                 \A k \in Kinds : size(cache_service'[k]) = 0
      ]_vars

\* a clear_all_caches() call is between its clears: the grammar cache is
\* empty, the tone cache, which it has yet to clear, still holds an entry
C29_Witness ==
    \E t \in Threads :
        /\ thr[t].call = "clear"
        /\ thr[t].cache = "summary"
        /\ thr[t].pc = "release"
        /\ size(cache_service.grammar) = 0
        /\ size(cache_service.tone) = 1

\* the last press issued a replace: it set the clipboard or pasted
IssuedReplace ==
    \E i \in 1..Len(hotkey.issued) :
        hotkey.issued[i] \in {"set_clipboard_text", "paste_from_clipboard"}

Stored(c) == {<<c._cache[i].key, c._cache[i].value>> : i \in 1..Len(c._cache)}

\* C31: a processor invocation that returns a failed result leaves the three
\* caches with the keys and the stored values they had: no failure path
\* inserts, overwrites or removes an entry.
C31_FailureLeavesCaches ==
    [][ (calls' = calls + 1 /\ Failed(result')) =>
            \A k \in Kinds : Stored(cache_service'[k]) = Stored(cache_service[k])
      ]_vars

\* a failure after inference, in a processor whose cache holds an entry
C31_Witness ==
    /\ ~Idle /\ Failed(result)
    /\ call.generate_calls = 1
    /\ call.stored = None
    /\ cache_service[call.op]._cache # <<>>

\* C32: in a cache with max_size >= cleanup_batch_size >= 1, a put of a new
\* key at size() = max_size leaves size() = max_size - cleanup_batch_size + 1
\* with the new key present; when max_size = cleanup_batch_size the put
\* removes every entry there was, and the new key is the only one left.
C32_PutAtCapacityKeepsNewKey ==
    (/\ lru_op.op = "put" /\ ~lru_op.present
     /\ lru.max_size >= lru.cleanup_batch_size
     /\ lru.cleanup_batch_size >= 1
     /\ lru_op.size_before = lru.max_size)
    =>
    /\ size(lru) = lru.max_size - lru.cleanup_batch_size + 1
    /\ contains(lru, lru_op.key)
    /\ lru_op.key \notin lru_op.removed
    /\ lru.max_size = lru.cleanup_batch_size =>
          /\ Cardinality(lru_op.removed) = lru_op.size_before
          /\ KeysOf(lru._cache) = {lru_op.key}

\* a put of a new key into a full cache of max_size = cleanup_batch_size = 2
\* has removed both entries
C32_Witness ==
    /\ lru_op.op = "put" /\ ~lru_op.present
    /\ lru.max_size = 2 /\ lru.cleanup_batch_size = 2
    /\ lru_op.size_before = 2
    /\ size(lru) = 1

\* a put has overwritten a key that was present in a map at or above
\* max_size and cleanup_batch_size
OverwroteAtCapacity ==
    /\ lru_op.op = "put" /\ lru_op.present
    /\ lru_op.size_before >= lru.max_size
    /\ lru_op.size_before >= lru.cleanup_batch_size

\* 1 when the cleanup removed the key being put, which the put then inserts
Reinserted == IF lru_op.key \in lru_op.removed THEN 1 ELSE 0

\* C33 (as stated): a put on a present key at size() >= max_size and
\* size() >= cleanup_batch_size runs the cleanup, which removes
\* cleanup_batch_size entries, and leaves size() at
\* max_size - cleanup_batch_size, plus 1 if the key itself was removed.
C33_AsStated ==
    OverwroteAtCapacity =>
        /\ Cardinality(lru_op.removed) = lru.cleanup_batch_size
        /\ size(lru) = lru.max_size - lru.cleanup_batch_size + Reinserted

\* C33 (amended): the same, with the size the map had before the put in place
\* of max_size: size() is left at that size minus cleanup_batch_size, plus 1
\* if the key itself was removed.
C33_OverwriteStillEvicts ==
    OverwroteAtCapacity =>
        /\ Cardinality(lru_op.removed) = lru.cleanup_batch_size
        /\ size(lru) = lru_op.size_before - lru.cleanup_batch_size + Reinserted
        /\ contains(lru, lru_op.key)

\* an overwrite in a full cache has evicted another key and kept its own
C33_Witness ==
    /\ OverwroteAtCapacity
    /\ lru.max_size = 2
    /\ lru_op.removed # {}
    /\ lru_op.key \notin lru_op.removed
    /\ size(lru) = 1

\* C34: the tone cache's key is injective on (normalized text, tone): a
\* lookup that returns the value of the only entry there is, the one the call
\* before it cached, was made for the same normalized text and the same tone.
C34_AsStated ==
    [][ (/\ svc_op.op = "cache" /\ svc_op.kind = "tone"
         /\ size(cache_service.tone) = 1
         /\ svc_op'.op = "get" /\ svc_op'.kind = "tone"
         /\ svc_op'.ret # None)
        =>
        /\ _normalize_key(svc_op'.text) = _normalize_key(svc_op.text)
        /\ svc_op'.tone = svc_op.tone
      ]_vars

\* the value under the key of call record cl in the cache of its kind in svc,
\* None if there is no entry
EntryOfCall(svc, cl) ==
    LET d == svc[cl.op]._cache
        i == IndexOf(d, CacheKey(cl.op, cl.text, cl.tone))
    IN  IF i = 0 THEN None ELSE Some(d[i].value)

SameButCaseAndSpace(t1, t2) == lower(strip(t1)) = lower(strip(t2))

Validated == request.kind \in {"grammar", "tone"} /\ "result" \in DOMAIN request

\* C37: fix_grammar and change_tone compare the length of the trimmed output
\* with the length of the input as given, blanks included, and reject exactly
\* when the output is empty or 10 * len(output) < 3 * len(input): an output
\* of exactly 30% of the input is accepted, and an output accepted for a text
\* can be rejected for the same text with blanks around it.
C37_LengthGuard ==
    Validated =>
        LET out == strip(request.generated)
            rejected == out = <<>> \/ 10 * Len(out) < 3 * Len(request.text)
        IN  /\ rejected <=> ~request.result.success
            /\ rejected =>
                  /\ request.result.error_message = Some(InvalidResponseMsg(request.kind))
                  /\ request.result.processed_text = request.text
            /\ ~rejected => request.result.processed_text = out
            /\ (10 * Len(out) = 3 * Len(request.text) /\ out # <<>>)
                  => request.result.success

\* an output of 3 characters, accepted for a text of 10 characters: exactly
\* 30%, where the text is 8 characters between two blanks
C37_Witness ==
    /\ Validated
    /\ request.text = Wrapped(TextOfLen(8))
    /\ Len(strip(request.generated)) = 3
    /\ request.generated # strip(request.generated)
    /\ request.result.success

\* C38: processing_time is other than 0 only in a success made by inference:
\* a success from the cache and every failed result report 0, also a failure
\* found after the provider was called, and a failed result has no metadata.
C38_TimeOnlyOnFreshSuccess ==
    (~Idle /\ IsResult(result)) =>
        /\ result.processing_time # 0 =>
              /\ Succeeded(result) /\ ~FromCache(result)
              /\ call.generate_calls = 1
        /\ (Succeeded(result) /\ FromCache(result)) => result.processing_time = 0
        /\ Failed(result) =>
              /\ result.processing_time = 0
              /\ result.metadata = None
        /\ Succeeded(result) => result.metadata # None

\* the first call failed on an under-length output after the provider had
\* been called and time had passed
C38_Witness ==
    /\ ~Idle /\ calls = 1 /\ clock > 0
    /\ call.generate_calls = 1
    /\ call.response[1].kind = "ok"
    /\ strip(Generated) # <<>>
    /\ Failed(result)
    /\ result.processing_time = 0

\* C39: contains(key) and size() only read: they return whether the key is
\* there and how many entries there are, and leave the keys, every entry's
\* access_count and last_accessed, and with them the entries the next cleanup
\* would delete, as they were.
C39_ContainsAndSizeOnlyRead ==
    [][ lru_op'.op \in {"contains", "size"} =>
          /\ lru' = lru
          /\ CleanupVictims(lru') = CleanupVictims(lru)
          /\ lru_op'.op = "contains" =>
                lru_op'.ret = (lru_op'.key \in KeysOf(lru._cache))
          /\ lru_op'.op = "size" => lru_op'.ret = Len(lru._cache)
      ]_vars

\* contains has found the least recently used of two entries, the one the
\* next cleanup deletes, and it is still the least recently used
C39_Witness ==
    /\ lru_op.op = "contains" /\ lru_op.ret = TRUE
    /\ size(lru) = 2
    /\ lru.cleanup_batch_size = 1
    /\ LET i == IndexOf(lru._cache, lru_op.key) IN
          /\ i \in CleanupVictims(lru)
          /\ \E j \in 1..2 : lru._cache[j].last_accessed > lru._cache[i].last_accessed

====
